---- MODULE Spec2Model ----
(***************************************************************************)
(* Model of the fungal-network core of mycelia: the growth-tip selection   *)
(* protocol, the core-node lifecycle and lose condition, and the graph     *)
(* traversal functions.                                                    *)
(*                                                                         *)
(* The specifications share the variables; each leaves the variables it    *)
(* does not use at their initial values:                                   *)
(*   SpecSel    growth-tip selection and aiming over a set of tips         *)
(*   SpecCore   game-state transitions, core spawn/despawn, death check    *)
(*   SpecGraph  the four graph traversals, one loop iteration per step     *)
(*              (SpecGraphFair: the same with every enabled step taken)    *)
(*   SpecProg   the nutrient pool, passive generation and the spend        *)
(*              protocol in an app of the state machine and the            *)
(*              progression plugin                                         *)
(*   SpecNet    one frame of the network plugin as it is registered        *)
(*   SpecHealth the Health component's operations                          *)
(*   SpecState  pause input, run statistics and their reset                *)
(*   SpecCam    the camera's zoom under scroll input                       *)
(*   SpecChildren  the NetworkChildren collection                          *)
(*   SpecColor  the colour of a tendril segment                            *)
(*   SpecPlay   the network plugin's Update systems across game states     *)
(*   SpecMirror the traversals as whole calls on a tree with mirrored      *)
(*              parent and children links                                  *)
(*   SpecPool   Nutrients::add and spend with amounts of either sign       *)
(*   SpecInput  the input refresh of a frame                               *)
(*   SpecTracker  the frame-time tracker                                   *)
(***************************************************************************)
EXTENDS Integers, Sequences, FiniteSets, TLC

VARIABLES
    \* ---- growth-tip selection (growth.rs) ----
    tips,           \* live GrowthTip entities: id -> [selected, position, direction]
    tipsSpawned,    \* number of tip entities ever spawned (handles are never reused)
    active_tip,     \* the ActiveGrowthTip resource: NoEntity or a tip handle
    input,          \* InputActions.primary_just_pressed and CursorWorldPosition.position
    \* ---- core node lifecycle (core_node.rs, mod.rs) ----
    state,          \* State<GameState>
    next_state,     \* NextState<GameState>: NoState or the requested state
    phase,          \* which schedule of the frame runs next
    cores,          \* live CoreNode entities: id -> Health.current
    coresSpawned,   \* number of core entities ever spawned
    core_entity,    \* the CoreNodeEntity resource: NoEntity (absent) or a handle
    \* ---- graph traversal (graph.rs) ----
    alive,          \* entities of the store that have not been despawned
    parents,        \* NetworkParent component: entity -> parent handle or NoEntity
    children,       \* NetworkChildren component: entity -> None or Some(Vec of handles)
    entity,         \* the start handle of the traversals
    core,           \* the core handle of the traversals
    pc,             \* the traversal that is running
    current,        \* loop variable `current` of the running traversal
    hops,           \* loop iterations the running traversal has made
    distance,       \* distance_from_core: `distance`
    path,           \* path_to_core: `path`
    stack,          \* find_downstream_segments: `stack`
    result,         \* find_downstream_segments: `result`
    ret,            \* results returned so far: operation -> value
    \* ---- nutrient economy (progression) ----
    nutrients,      \* the Nutrients resource: [current, max], in tenths of a nutrient
    network_stats,  \* the NetworkStats resource: [connected_segments, territory_coverage]
    events,         \* the notifications sent by the last step, in order
    call,           \* the last operation: [op, amount, purpose, ret]
    \* ---- components and resources of the other plugins ----
    hp,             \* a Health component: [current, max]
    run_stats,      \* the RunStats resource
    pause_state,    \* the PauseState resource: [was_paused_by_upgrade]
    keyboard,       \* ButtonInput<KeyCode>: [escape_just_pressed]
    controller,     \* the main camera: CameraController zoom and limits, projection scale
    network_children, \* a NetworkChildren component: the Vec of child handles
    segment,        \* a TendrilSegment: [health, max_health, corrupted, corruption_level]
    style,          \* the TendrilStyle colour of that segment: <<r, g, b, a>> in thousandths
    color,          \* the colour segment_color returned, or NoColor
    \* ---- input refresh (input) and frame timing (debug) ----
    keys,           \* ButtonInput<KeyCode> as the input systems read it: [pressed, just_pressed]
    mouse,          \* ButtonInput<MouseButton> as the input systems read it: [pressed, just_pressed]
    actions,        \* the InputActions resource
    input_step,     \* the system of the PreUpdate chain that runs next
    tracker         \* a FrameTimeTracker: [frame_times, max_samples, panicked]

selVars   == <<tips, tipsSpawned, active_tip, input>>
coreVars  == <<state, next_state, phase, cores, coresSpawned, core_entity>>
graphVars == <<alive, parents, children, entity, core, pc, current, hops,
               distance, path, stack, result, ret>>
progVars  == <<nutrients, network_stats, events, call>>
miscVars  == <<hp, run_stats, pause_state, keyboard, controller,
               network_children, segment, style, color>>
ioVars    == <<keys, mouse, actions, input_step, tracker>>
vars      == <<selVars, coreVars, graphVars, progVars, miscVars, ioVars>>

\* Option::None of an entity handle, of a state request, of a component
\* lookup, of the cursor position.
NoEntity == 0
NoState  == "None"
NoPos    == <<>>

(***************************************************************************)
(* Bounds                                                                  *)
(***************************************************************************)
MaxTips     == 2    \* tip entities spawned in a run
MaxCores    == 3    \* core entities spawned in a run
NumEntities == 3    \* entity handles of the traversal store
MaxIncrease == 1    \* capacity gained by increase_max in a run, in units of 50.0
MaxElapsed  == 2    \* seconds of play RunStats.elapsed_time counts
MaxExcess   == 1    \* how far the pool is followed outside 0..max, in units of 50.0
MaxSamples  == 3    \* largest max_samples a FrameTimeTracker is created with
MaxScroll   == 2    \* MouseWheel events read in one frame
MaxChildren == 4    \* handles a NetworkChildren collection is grown to

(***************************************************************************)
(* The parts of the state a specification does not use stay as follows.    *)
(***************************************************************************)
SelIdle ==
    /\ tips = [t \in {} |-> 0]
    /\ tipsSpawned = 0
    /\ active_tip = NoEntity
    /\ input = [primary_just_pressed |-> FALSE, cursor |-> NoPos]

CoreIdle ==
    /\ state = "Menu"
    /\ next_state = NoState
    /\ phase = "StateTransition"
    /\ cores = [c \in {} |-> 0]
    /\ coresSpawned = 0
    /\ core_entity = NoEntity

GraphIdle ==
    /\ alive = {}
    /\ parents = [e \in 1..NumEntities |-> NoEntity]
    /\ children = [e \in 1..NumEntities |-> <<>>]
    /\ entity = 1
    /\ core = 1
    /\ pc = "done"
    /\ current = NoEntity
    /\ hops = 0
    /\ distance = 0
    /\ path = <<>>
    /\ stack = <<>>
    /\ result = <<>>
    /\ ret = [op \in {} |-> 0]

\* f32 quantities of the economy are fixed-point numbers in tenths:
\* 500 is 50.0 nutrients, a rate of 1 is 0.1, a delta of 10 is one second.

\* Nutrients::default(): current 50.0, max 100.0
NutrientsDefault == [current |-> 500, max |-> 1000]

\* NetworkStats::default()
NetworkStatsDefault == [connected_segments |-> 0, territory_coverage |-> 0]

\* No operation has been called yet.
NoCall == [op |-> "init", amount |-> 0, purpose |-> "None", ret |-> FALSE]

ProgIdle ==
    /\ nutrients = NutrientsDefault
    /\ network_stats = NetworkStatsDefault
    /\ events = <<>>
    /\ call = NoCall

\* RunStats::default()
RunStatsDefault ==
    [elapsed_time |-> 0, enemies_killed |-> 0, max_territory |-> 0, nutrients_collected |-> 0]

\* PauseState::default()
PauseStateDefault == [was_paused_by_upgrade |-> FALSE]

\* The main camera spawn_camera creates, in hundredths: CameraController
\* with zoom = CameraSettings::default().default_zoom = 1.0 and
\* ..default() (0.25 to 4.0), OrthographicProjection with scale 1.0.
MainCameraDefault == [zoom |-> 100, min_zoom |-> 25, max_zoom |-> 400, scale |-> 100]

\* TendrilSegment::default()
TendrilSegmentDefault ==
    [health |-> 100, max_health |-> 100, corrupted |-> FALSE, corruption_level |-> 0]

\* TendrilStyle::default(): for_type(Basic), Color::srgb(0.4, 0.7, 0.3)
TendrilStyleDefault == <<400, 700, 300, 1000>>

\* No colour has been computed yet.
NoColor == <<>>

MiscIdle ==
    /\ hp = [current |-> 100, max |-> 100]
    /\ run_stats = RunStatsDefault
    /\ pause_state = PauseStateDefault
    /\ keyboard = [escape_just_pressed |-> FALSE]
    /\ controller = MainCameraDefault
    /\ network_children = <<>>
    /\ segment = TendrilSegmentDefault
    /\ style = TendrilStyleDefault
    /\ color = NoColor

\* InputActions::default()
InputActionsDefault ==
    [move_direction |-> <<0, 0>>,
     primary_just_pressed |-> FALSE, primary_held |-> FALSE,
     secondary_just_pressed |-> FALSE, secondary_held |-> FALSE,
     pause_just_pressed |-> FALSE, zoom_delta |-> 0]

\* ButtonInput::default(): nothing pressed.
ButtonInputDefault == [pressed |-> {}, just_pressed |-> {}]

\* FrameTimeTracker::default(): new(60) holds no sample.
IoIdle ==
    /\ keys = ButtonInputDefault
    /\ mouse = ButtonInputDefault
    /\ actions = InputActionsDefault
    /\ input_step = "input"
    /\ tracker = [frame_times |-> <<>>, max_samples |-> 60, panicked |-> FALSE]

(***************************************************************************)
(* Core node lifecycle and lose condition                                  *)
(***************************************************************************)
GameState == {"Menu", "Playing", "Paused", "Upgrading", "GameOver"}

CORE_NODE_HEALTH == 100

\* Damage amounts applied to a core by the damage-dealing systems.
DamageAmounts == {40, 100}

Max2(a, b) == IF a >= b THEN a ELSE b

\* Health::new(max)
HealthNew(max) == max

\* Health::damage without the clamp at 0
HealthDamage_noClamp(h, amount) == h - amount

\* Health::damage: (current - amount).max(0.0)
HealthDamage(h, amount) == Max2(h - amount, 0)

\* Health::is_dead with a strict comparison
is_dead_strict(h) == h < 0

\* Health::is_dead: current <= 0.0
is_dead(h) == h <= 0

\* spawn_core_node: spawn one CoreNode with full health, publish its handle.
\* Result: <<cores, coresSpawned, core_entity>>.
spawn_core_node(cs, n, res) ==
    LET e == n + 1
    IN  <<[c \in DOMAIN cs \cup {e} |-> IF c = e THEN HealthNew(CORE_NODE_HEALTH) ELSE cs[c]],
          e, e>>

\* despawn_core_node that despawns only the entity the handle resource names.
despawn_core_node_onlyHandle(cs, n, res) ==
    <<[c \in DOMAIN cs \ {res} |-> cs[c]], n, NoEntity>>

\* despawn_core_node: despawn every CoreNode, remove the handle resource.
despawn_core_node(cs, n, res) ==
    <<[c \in {} |-> 0], n, NoEntity>>

\* The OnEnter schedule of a state, as NetworkPlugin::build registers it.
OnEnter(s, cs, n, res) ==
    CASE s = "Playing" -> spawn_core_node(cs, n, res)
      [] s = "Menu"    -> despawn_core_node(cs, n, res)
      [] OTHER         -> <<cs, n, res>>

\* check_core_death: get_single() fails unless exactly one CoreNode exists;
\* a dead single core requests GameOver.  Result: the new NextState.
check_core_death(cs, ns) ==
    IF Cardinality(DOMAIN cs) # 1
    THEN ns
    ELSE LET health == cs[CHOOSE c \in DOMAIN cs : TRUE]
         IN  IF is_dead(health) THEN "GameOver" ELSE ns

\* The StateTransition schedule: apply the pending request.  A request for
\* the current state is consumed without running OnExit/OnEnter.
StateTransition ==
    /\ phase = "StateTransition"
    /\ phase' = "Update"
    /\ next_state' = NoState
    /\ IF next_state = NoState \/ next_state = state
       THEN UNCHANGED <<state, cores, coresSpawned, core_entity>>
       ELSE /\ state' = next_state
            /\ LET r == OnEnter(next_state, cores, coresSpawned, core_entity)
               IN  /\ cores' = r[1]
                   /\ coresSpawned' = r[2]
                   /\ core_entity' = r[3]
    /\ UNCHANGED <<selVars, ioVars, graphVars, progVars, miscVars>>

\* The Update schedule: check_core_death runs if in_state(Playing).
Update ==
    /\ phase = "Update"
    /\ phase' = "StateTransition"
    /\ next_state' = IF state = "Playing"
                     THEN check_core_death(cores, next_state)
                     ELSE next_state
    /\ UNCHANGED <<state, cores, coresSpawned, core_entity>>
    /\ UNCHANGED <<selVars, ioVars, graphVars, progVars, miscVars>>

\* Another system or the embedding code requests a state: NextState::set.
RequestState(s) ==
    /\ s = "Playing" => coresSpawned < MaxCores
    /\ next_state' = s
    /\ UNCHANGED <<state, phase, cores, coresSpawned, core_entity>>
    /\ UNCHANGED <<selVars, ioVars, graphVars, progVars, miscVars>>

\* A damage-dealing system hits a core: Health::damage.
Damage(c, amount) ==
    /\ c \in DOMAIN cores
    /\ cores[c] > 0
    /\ cores' = [cores EXCEPT ![c] = HealthDamage(cores[c], amount)]
    /\ UNCHANGED <<state, next_state, phase, coresSpawned, core_entity>>
    /\ UNCHANGED <<selVars, ioVars, graphVars, progVars, miscVars>>

(***************************************************************************)
(* Growth-tip selection and aiming                                         *)
(***************************************************************************)
TIP_SELECTION_RADIUS == 12

\* World positions used for tips and cursor: the corners of a 12 x 5
\* rectangle.  From a corner, the others lie at distance 5 (inside the
\* radius), 12 (exactly on it) and 13 (outside), and every distance is whole.
Points == {<<0, 0>>, <<12, 0>>, <<0, 5>>, <<12, 5>>}

\* A unit vector is stored in units of 1/UNIT; UNIT is a common multiple of
\* the lengths occurring between Points, so normalisation is exact.
UNIT == 5 * 12 * 13

Abs(x) == IF x >= 0 THEN x ELSE -x

\* Vec2::distance_squared
distance_squared(a, b) ==
    (a[1] - b[1]) * (a[1] - b[1]) + (a[2] - b[2]) * (a[2] - b[2])

\* Vec2::length
Length(v) == CHOOSE n \in 0..(Abs(v[1]) + Abs(v[2])) : n * n = v[1] * v[1] + v[2] * v[2]

\* Vec2::normalize_or_zero
normalize_or_zero(v) ==
    IF v = <<0, 0>>
    THEN <<0, 0>>
    ELSE <<(v[1] * UNIT) \div Length(v), (v[2] * UNIT) \div Length(v)>>

\* is_cursor_near_tip with the radius itself out of range.
is_cursor_near_tip_exclusive(cursor_pos, tip_pos, radius) ==
    distance_squared(tip_pos, cursor_pos) < radius * radius

\* is_cursor_near_tip: squared distance against squared radius, inclusive.
is_cursor_near_tip(cursor_pos, tip_pos, radius) ==
    distance_squared(tip_pos, cursor_pos) <= radius * radius

\* select_growth_tip that deselects only when it finds a tip to select.
select_growth_tip_keepSelected(inp, act, tps) ==
    IF ~inp.primary_just_pressed \/ inp.cursor = NoPos
    THEN {[active_tip |-> act, tips |-> tps]}
    ELSE LET cleared == IF act # NoEntity /\ act \in DOMAIN tps
                        THEN [tps EXCEPT ![act].selected = FALSE]
                        ELSE tps
             near == {t \in DOMAIN cleared :
                        is_cursor_near_tip(inp.cursor, cleared[t].position, TIP_SELECTION_RADIUS)}
             closest == {t \in near : \A u \in near :
                           distance_squared(inp.cursor, cleared[t].position)
                             <= distance_squared(inp.cursor, cleared[u].position)}
         IN  IF near = {}
             THEN {[active_tip |-> NoEntity, tips |-> tps]}
             ELSE {[active_tip |-> t,
                    tips |-> [cleared EXCEPT ![t].selected = TRUE]] : t \in closest}

\* select_growth_tip reading `pressed` (held) in place of `just_pressed`.
select_growth_tip_whileHeld(inp, act, tps) ==
    IF inp.cursor = NoPos
    THEN {[active_tip |-> act, tips |-> tps]}
    ELSE LET cleared == IF act # NoEntity /\ act \in DOMAIN tps
                        THEN [tps EXCEPT ![act].selected = FALSE]
                        ELSE tps
             near == {t \in DOMAIN cleared :
                        is_cursor_near_tip(inp.cursor, cleared[t].position, TIP_SELECTION_RADIUS)}
             closest == {t \in near : \A u \in near :
                           distance_squared(inp.cursor, cleared[t].position)
                             <= distance_squared(inp.cursor, cleared[u].position)}
         IN  IF near = {}
             THEN {[active_tip |-> NoEntity, tips |-> cleared]}
             ELSE {[active_tip |-> t,
                    tips |-> [cleared EXCEPT ![t].selected = TRUE]] : t \in closest}

\* select_growth_tip without the deselect-first step.
select_growth_tip_noDeselect(inp, act, tps) ==
    IF ~inp.primary_just_pressed \/ inp.cursor = NoPos
    THEN {[active_tip |-> act, tips |-> tps]}
    ELSE LET near == {t \in DOMAIN tps :
                        is_cursor_near_tip(inp.cursor, tps[t].position, TIP_SELECTION_RADIUS)}
             closest == {t \in near : \A u \in near :
                           distance_squared(inp.cursor, tps[t].position)
                             <= distance_squared(inp.cursor, tps[u].position)}
         IN  IF near = {}
             THEN {[active_tip |-> NoEntity, tips |-> tps]}
             ELSE {[active_tip |-> t,
                    tips |-> [tps EXCEPT ![t].selected = TRUE]] : t \in closest}

\* select_growth_tip that leaves the slot alone when no tip is in range.
select_growth_tip_keepSlot(inp, act, tps) ==
    IF ~inp.primary_just_pressed \/ inp.cursor = NoPos
    THEN {[active_tip |-> act, tips |-> tps]}
    ELSE LET cleared == IF act # NoEntity /\ act \in DOMAIN tps
                        THEN [tps EXCEPT ![act].selected = FALSE]
                        ELSE tps
             near == {t \in DOMAIN cleared :
                        is_cursor_near_tip(inp.cursor, cleared[t].position, TIP_SELECTION_RADIUS)}
             closest == {t \in near : \A u \in near :
                           distance_squared(inp.cursor, cleared[t].position)
                             <= distance_squared(inp.cursor, cleared[u].position)}
         IN  IF near = {}
             THEN {[active_tip |-> act, tips |-> cleared]}
             ELSE {[active_tip |-> t,
                    tips |-> [cleared EXCEPT ![t].selected = TRUE]] : t \in closest}

\* select_growth_tip that treats a click on the active tip as a toggle: the
\* tip deselected first is not selected again.
select_growth_tip_toggle(inp, act, tps) ==
    IF ~inp.primary_just_pressed
    THEN {[active_tip |-> act, tips |-> tps]}
    ELSE IF inp.cursor = NoPos
    THEN {[active_tip |-> act, tips |-> tps]}
    ELSE LET cursor == inp.cursor
             cleared == IF act # NoEntity /\ act \in DOMAIN tps
                        THEN [tps EXCEPT ![act].selected = FALSE]
                        ELSE tps
             near == {t \in DOMAIN cleared :
                        is_cursor_near_tip(cursor, cleared[t].position, TIP_SELECTION_RADIUS)}
             closest == {t \in near : \A u \in near :
                           distance_squared(cursor, cleared[t].position)
                             <= distance_squared(cursor, cleared[u].position)}
         IN  IF near = {}
             THEN {[active_tip |-> NoEntity, tips |-> cleared]}
             ELSE {IF t = act
                   THEN [active_tip |-> NoEntity, tips |-> cleared]
                   ELSE [active_tip |-> t,
                         tips |-> [cleared EXCEPT ![t].selected = TRUE]] : t \in closest}

\* select_growth_tip that stores the handle of the nearest tip without
\* setting the tip's flag.
select_growth_tip_slotOnly(inp, act, tps) ==
    IF ~inp.primary_just_pressed
    THEN {[active_tip |-> act, tips |-> tps]}
    ELSE IF inp.cursor = NoPos
    THEN {[active_tip |-> act, tips |-> tps]}
    ELSE LET cursor == inp.cursor
             cleared == IF act # NoEntity /\ act \in DOMAIN tps
                        THEN [tps EXCEPT ![act].selected = FALSE]
                        ELSE tps
             near == {t \in DOMAIN cleared :
                        is_cursor_near_tip(cursor, cleared[t].position, TIP_SELECTION_RADIUS)}
             closest == {t \in near : \A u \in near :
                           distance_squared(cursor, cleared[t].position)
                             <= distance_squared(cursor, cleared[u].position)}
         IN  IF near = {}
             THEN {[active_tip |-> NoEntity, tips |-> cleared]}
             ELSE {[active_tip |-> t, tips |-> cleared] : t \in closest}

\* select_growth_tip.  The result is the set of outcomes <<active, tips>>:
\* min_by keeps the first of several equally near tips in the query's
\* iteration order, which the entity store does not fix.
select_growth_tip(inp, act, tps) ==
    IF ~inp.primary_just_pressed
    THEN {[active_tip |-> act, tips |-> tps]}
    ELSE IF inp.cursor = NoPos
    THEN {[active_tip |-> act, tips |-> tps]}
    ELSE LET cursor == inp.cursor
             \* deselect the old tip if it still resolves
             cleared == IF act # NoEntity /\ act \in DOMAIN tps
                        THEN [tps EXCEPT ![act].selected = FALSE]
                        ELSE tps
             near == {t \in DOMAIN cleared :
                        is_cursor_near_tip(cursor, cleared[t].position, TIP_SELECTION_RADIUS)}
             closest == {t \in near : \A u \in near :
                           distance_squared(cursor, cleared[t].position)
                             <= distance_squared(cursor, cleared[u].position)}
         IN  IF near = {}
             THEN {[active_tip |-> NoEntity, tips |-> cleared]}
             ELSE {[active_tip |-> t,
                    tips |-> [cleared EXCEPT ![t].selected = TRUE]] : t \in closest}

\* update_selected_tip_direction storing the offset to the cursor as it is.
update_selected_tip_direction_notNormalized(inp, act, tps) ==
    IF inp.cursor = NoPos THEN tps
    ELSE IF act = NoEntity \/ act \notin DOMAIN tps THEN tps
    ELSE [tps EXCEPT ![act].direction =
              <<inp.cursor[1] - tps[act].position[1],
                inp.cursor[2] - tps[act].position[2]>>]

\* update_selected_tip_direction.  The result is the new tips.
update_selected_tip_direction(inp, act, tps) ==
    IF inp.cursor = NoPos THEN tps
    ELSE IF act = NoEntity THEN tps
    ELSE IF act \notin DOMAIN tps THEN tps
    ELSE [tps EXCEPT ![act].direction =
              normalize_or_zero(<<inp.cursor[1] - tps[act].position[1],
                                  inp.cursor[2] - tps[act].position[2]>>)]

\* The selection system runs once.
SelectGrowthTip ==
    /\ \E r \in select_growth_tip(input, active_tip, tips) :
          /\ tips' = r.tips
          /\ active_tip' = r.active_tip
    /\ UNCHANGED <<tipsSpawned, input>>
    /\ UNCHANGED <<coreVars, graphVars, progVars, miscVars, ioVars>>

\* The aiming system iterating over every tip instead of the slot's.
UpdateSelectedTipDirection_everyTip ==
    /\ tips' = IF input.cursor = NoPos \/ active_tip \notin DOMAIN tips
               THEN tips
               ELSE [t \in DOMAIN tips |->
                       [tips[t] EXCEPT !.direction =
                          normalize_or_zero(<<input.cursor[1] - tips[t].position[1],
                                              input.cursor[2] - tips[t].position[2]>>)]]
    /\ UNCHANGED <<tipsSpawned, active_tip, input>>
    /\ UNCHANGED <<coreVars, graphVars, progVars, miscVars, ioVars>>

\* The aiming system runs once.
UpdateSelectedTipDirection ==
    /\ tips' = update_selected_tip_direction(input, active_tip, tips)
    /\ UNCHANGED <<tipsSpawned, active_tip, input>>
    /\ UNCHANGED <<coreVars, graphVars, progVars, miscVars, ioVars>>

\* The input resources take the values of a new frame.
SetInput(pressed, cursor) ==
    /\ input' = [primary_just_pressed |-> pressed, cursor |-> cursor]
    /\ UNCHANGED <<tips, tipsSpawned, active_tip>>
    /\ UNCHANGED <<coreVars, graphVars, progVars, miscVars, ioVars>>

\* A growth tip is spawned: GrowthTip::default(), TendrilPosition::new(pos, Vec2::X).
SpawnTip(pos) ==
    /\ tipsSpawned < MaxTips
    /\ tipsSpawned' = tipsSpawned + 1
    /\ tips' = [t \in DOMAIN tips \cup {tipsSpawned + 1} |->
                  IF t = tipsSpawned + 1
                  THEN [selected |-> FALSE, position |-> pos,
                        direction |-> normalize_or_zero(<<1, 0>>)]
                  ELSE tips[t]]
    /\ UNCHANGED <<active_tip, input>>
    /\ UNCHANGED <<coreVars, graphVars, progVars, miscVars, ioVars>>

\* A growth tip is despawned; its handle never resolves again.
DespawnTip(t) ==
    /\ t \in DOMAIN tips
    /\ tips' = [u \in DOMAIN tips \ {t} |-> tips[u]]
    /\ UNCHANGED <<tipsSpawned, active_tip, input>>
    /\ UNCHANGED <<coreVars, graphVars, progVars, miscVars, ioVars>>

(***************************************************************************)
(* Graph traversal                                                         *)
(***************************************************************************)
Entities == 1..NumEntities

\* Option<T>
None    == <<>>
Some(x) == <<x>>

\* Loop iterations after which a traversal is no longer followed.  A walk
\* over acyclic parent links ends within NumEntities iterations and a
\* descent over acyclic children links within 2^(NumEntities-1) of them;
\* only a traversal of cyclic links reaches the caps.
MaxHops     == NumEntities + 1
MaxDescents == 2 ^ (NumEntities - 1) + 1

\* parents.get(e): Err (NoEntity) for a despawned entity and for one
\* without the NetworkParent component.
ParentsGet(e) ==
    IF e \in alive THEN parents[e] ELSE NoEntity

\* children.get(e): Err (None) for a despawned entity and for one without
\* the NetworkChildren component, else Some(kids.0).
ChildrenGet(e) ==
    IF e \in alive THEN children[e] ELSE None

\* is_connected_to_core that goes on with the same entity when a lookup fails.
is_connected_to_core_missContinues(cur, c) ==
    IF cur = c
    THEN [returned |-> TRUE, value |-> TRUE]
    ELSE IF ParentsGet(cur) # NoEntity
    THEN [returned |-> FALSE, current |-> ParentsGet(cur)]
    ELSE [returned |-> FALSE, current |-> cur]

\* One iteration of the loop of is_connected_to_core.
is_connected_to_core(cur, c) ==
    IF cur = c
    THEN [returned |-> TRUE, value |-> TRUE]
    ELSE IF ParentsGet(cur) # NoEntity
    THEN [returned |-> FALSE, current |-> ParentsGet(cur)]
    ELSE [returned |-> TRUE, value |-> FALSE]

\* distance_from_core that answers the hops made so far when a lookup fails.
distance_from_core_missIsSome(cur, dist, c) ==
    IF cur = c
    THEN [returned |-> TRUE, value |-> Some(dist)]
    ELSE IF ParentsGet(cur) # NoEntity
    THEN [returned |-> FALSE, current |-> ParentsGet(cur), distance |-> dist + 1]
    ELSE [returned |-> TRUE, value |-> Some(dist)]

\* One iteration of the loop of distance_from_core.
distance_from_core(cur, dist, c) ==
    IF cur = c
    THEN [returned |-> TRUE, value |-> Some(dist)]
    ELSE IF ParentsGet(cur) # NoEntity
    THEN [returned |-> FALSE, current |-> ParentsGet(cur), distance |-> dist + 1]
    ELSE [returned |-> TRUE, value |-> None]

\* path_to_core that tests for the core before it pushes the entity.
path_to_core_testBeforePush(cur, pth, c) ==
    IF cur = c
    THEN [returned |-> TRUE, value |-> Some(pth)]
    ELSE IF ParentsGet(cur) # NoEntity
    THEN [returned |-> FALSE, current |-> ParentsGet(cur), path |-> Append(pth, cur)]
    ELSE [returned |-> TRUE, value |-> None]

\* One iteration of the loop of path_to_core.
path_to_core(cur, pth, c) ==
    LET pushed == Append(pth, cur)
    IN  IF cur = c
        THEN [returned |-> TRUE, value |-> Some(pushed)]
        ELSE IF ParentsGet(cur) # NoEntity
        THEN [returned |-> FALSE, current |-> ParentsGet(cur), path |-> pushed]
        ELSE [returned |-> TRUE, value |-> None]

\* find_downstream_segments that records an entity only if its children
\* lookup succeeds.
find_downstream_segments_pushIfKids(stk, res) ==
    IF stk = <<>>
    THEN [returned |-> TRUE, value |-> res]
    ELSE LET cur  == stk[Len(stk)]
             rest == SubSeq(stk, 1, Len(stk) - 1)
         IN  IF ChildrenGet(cur) # None
             THEN [returned |-> FALSE, stack |-> rest \o ChildrenGet(cur)[1],
                   result |-> Append(res, cur)]
             ELSE [returned |-> FALSE, stack |-> rest, result |-> res]

\* One iteration of the loop of find_downstream_segments: pop, record,
\* push the children.
find_downstream_segments(stk, res) ==
    IF stk = <<>>
    THEN [returned |-> TRUE, value |-> res]
    ELSE LET cur    == stk[Len(stk)]
             rest   == SubSeq(stk, 1, Len(stk) - 1)
             pushed == Append(res, cur)
         IN  IF ChildrenGet(cur) # None
             THEN [returned |-> FALSE, stack |-> rest \o ChildrenGet(cur)[1], result |-> pushed]
             ELSE [returned |-> FALSE, stack |-> rest, result |-> pushed]

Return(op, value, next) ==
    /\ ret' = [o \in DOMAIN ret \cup {op} |-> IF o = op THEN value ELSE ret[o]]
    /\ pc' = next
    /\ current' = entity
    /\ hops' = 0

IsConnectedStep ==
    /\ pc = "is_connected_to_core"
    /\ hops < MaxHops
    /\ LET r == is_connected_to_core(current, core)
       IN  IF r.returned
           THEN Return("is_connected_to_core", r.value, "distance_from_core")
           ELSE /\ current' = r.current
                /\ hops' = hops + 1
                /\ UNCHANGED <<pc, ret>>
    /\ UNCHANGED <<alive, parents, children, entity, core, distance, path, stack, result>>
    /\ UNCHANGED <<selVars, ioVars, coreVars, progVars, miscVars>>

DistanceStep ==
    /\ pc = "distance_from_core"
    /\ hops < MaxHops
    /\ LET r == distance_from_core(current, distance, core)
       IN  IF r.returned
           THEN /\ Return("distance_from_core", r.value, "path_to_core")
                /\ UNCHANGED distance
           ELSE /\ current' = r.current
                /\ distance' = r.distance
                /\ hops' = hops + 1
                /\ UNCHANGED <<pc, ret>>
    /\ UNCHANGED <<alive, parents, children, entity, core, path, stack, result>>
    /\ UNCHANGED <<selVars, ioVars, coreVars, progVars, miscVars>>

PathStep ==
    /\ pc = "path_to_core"
    /\ hops < MaxHops
    /\ LET r == path_to_core(current, path, core)
       IN  IF r.returned
           THEN /\ Return("path_to_core", r.value, "find_downstream_segments")
                /\ UNCHANGED path
           ELSE /\ current' = r.current
                /\ path' = r.path
                /\ hops' = hops + 1
                /\ UNCHANGED <<pc, ret>>
    /\ UNCHANGED <<alive, parents, children, entity, core, distance, stack, result>>
    /\ UNCHANGED <<selVars, ioVars, coreVars, progVars, miscVars>>

DownstreamStep ==
    /\ pc = "find_downstream_segments"
    /\ hops < MaxDescents
    /\ LET r == find_downstream_segments(stack, result)
       IN  IF r.returned
           THEN /\ Return("find_downstream_segments", r.value, "done")
                /\ UNCHANGED <<stack, result>>
           ELSE /\ stack' = r.stack
                /\ result' = r.result
                /\ hops' = hops + 1
                /\ UNCHANGED <<pc, ret, current>>
    /\ UNCHANGED <<alive, parents, children, entity, core, distance, path>>
    /\ UNCHANGED <<selVars, ioVars, coreVars, progVars, miscVars>>

RECURSIVE SortedVec(_)
\* The Vec that lists a set of handles in ascending order.
SortedVec(S) ==
    IF S = {} THEN <<>>
    ELSE LET m == CHOOSE x \in S : \A y \in S : x <= y
         IN  <<m>> \o SortedVec(S \ {m})

\* The link configurations the traversals are run on: either parent links
\* only, with any core handle, or children links only, where the core handle
\* plays no part and is the start entity.  A despawned entity has no
\* component; a children Vec lists distinct handles other than its owner.
ParentLinks ==
    /\ parents \in [Entities -> Entities \cup {NoEntity}]
    /\ \A e \in Entities \ alive : parents[e] = NoEntity
    /\ children = [e \in Entities |-> None]

ChildrenLinks ==
    /\ parents = [e \in Entities |-> NoEntity]
    /\ children \in [Entities -> {None} \cup {Some(SortedVec(S)) : S \in SUBSET Entities}]
    /\ \A e \in Entities \ alive : children[e] = None
    /\ \A e \in Entities : children[e] # None =>
          \A i \in 1..Len(children[e][1]) : children[e][1][i] # e

InitGraph ==
    /\ SelIdle /\ IoIdle
    /\ CoreIdle
    /\ ProgIdle
    /\ MiscIdle
    /\ alive \in SUBSET Entities
    /\ entity \in Entities
    /\ \/ ParentLinks /\ core \in Entities
       \/ ChildrenLinks /\ core = entity
    /\ pc = "is_connected_to_core"
    /\ current = entity
    /\ hops = 0
    /\ distance = 0
    /\ path = <<>>
    /\ stack = <<entity>>
    /\ result = <<>>
    /\ ret = [op \in {} |-> 0]

NextGraph ==
    \/ IsConnectedStep
    \/ DistanceStep
    \/ PathStep
    \/ DownstreamStep

SpecGraph == InitGraph /\ [][NextGraph]_vars

\* Every loop iteration that can be made is eventually made.
SpecGraphFair == SpecGraph /\ WF_vars(NextGraph)

(***************************************************************************)
(* Nutrient economy                                                        *)
(***************************************************************************)
\* PassiveNutrientConfig::default(): 0.1 per segment, 1.0 per unit coverage
PassiveNutrientConfigDefault == [per_segment_rate |-> 1, territory_bonus_rate |-> 10]

NutrientPurpose == {"Growth", "Ability", "Cleanse", "Debug"}

\* Amounts callers pass to add, spend, increase_max and try_spend_nutrients:
\* nothing, the growth cost 5.0, and 50.0.
NutrientAmounts == {0, 50, 500}

\* What NetworkStats is set to: empty; 40 segments and a coverage of 1.0
\* (4.0 + 1.0 nutrients per second); no segment and a coverage of -1.0.
StatsValues ==
    {[connected_segments |-> 0,  territory_coverage |-> 0],
     [connected_segments |-> 40, territory_coverage |-> 10],
     [connected_segments |-> 0,  territory_coverage |-> -10]}

\* Purposes callers pass to try_spend_nutrients.
PurposeValues == {"Growth", "Debug"}

\* Time::delta_secs() of a frame: no time, or one second.
DeltaValues == {0, 10}

Min2(a, b) == IF a <= b THEN a ELSE b

\* The product of two fixed-point numbers.
FMul(a, b) == (a * b) \div 10

\* Nutrients::add without the clamp to max
NutrientsAdd_noClamp(n, amount) ==
    [n EXCEPT !.current = n.current + amount]

\* Nutrients::add: (current + amount).min(max)
NutrientsAdd(n, amount) ==
    [n EXCEPT !.current = Min2(n.current + amount, n.max)]

\* Nutrients::spend refusing an amount equal to the pool
NutrientsSpend_strict(n, amount) ==
    IF n.current > amount
    THEN [nutrients |-> [n EXCEPT !.current = n.current - amount], ret |-> TRUE]
    ELSE [nutrients |-> n, ret |-> FALSE]

\* Nutrients::spend.  Result: the pool and the returned flag.
NutrientsSpend(n, amount) ==
    IF n.current >= amount
    THEN [nutrients |-> [n EXCEPT !.current = n.current - amount], ret |-> TRUE]
    ELSE [nutrients |-> n, ret |-> FALSE]

\* Nutrients::can_afford
NutrientsCanAfford(n, amount) == n.current >= amount

\* Nutrients::increase_max
NutrientsIncreaseMax(n, amount) == [n EXCEPT !.max = n.max + amount]

\* NutrientsGained::new
NutrientsGained(amount, source) ==
    [kind |-> "NutrientsGained", amount |-> amount, available |-> 0, tag |-> source]

\* NutrientsSpent::new
NutrientsSpent(amount, purpose) ==
    [kind |-> "NutrientsSpent", amount |-> amount, available |-> 0, tag |-> purpose]

\* NutrientSpendFailed::new
NutrientSpendFailed(amount_needed, amount_available, purpose) ==
    [kind |-> "NutrientSpendFailed", amount |-> amount_needed,
     available |-> amount_available, tag |-> purpose]

\* The income passive_nutrient_generation computes: `total`.
PassiveIncome(delta, stats, config) ==
    LET segment_income   == stats.connected_segments * config.per_segment_rate
        territory_income == FMul(stats.territory_coverage, config.territory_bonus_rate)
    IN  FMul(segment_income + territory_income, delta)

\* passive_nutrient_generation accepting an income of zero
passive_nutrient_generation_nonNegative(delta, stats, config, n) ==
    LET total == PassiveIncome(delta, stats, config)
    IN  IF total >= 0
        THEN [nutrients |-> NutrientsAdd(n, total),
              events |-> <<NutrientsGained(total, "PassiveAbsorption")>>]
        ELSE [nutrients |-> n, events |-> <<>>]

\* passive_nutrient_generation.  Result: the pool and the events sent.
passive_nutrient_generation(delta, stats, config, n) ==
    LET total == PassiveIncome(delta, stats, config)
    IN  IF total > 0
        THEN [nutrients |-> NutrientsAdd(n, total),
              events |-> <<NutrientsGained(total, "PassiveAbsorption")>>]
        ELSE [nutrients |-> n, events |-> <<>>]

\* try_spend_nutrients sending nothing on failure
try_spend_nutrients_silentFailure(amount, purpose, n) ==
    LET r == NutrientsSpend(n, amount)
    IN  IF r.ret
        THEN [nutrients |-> r.nutrients, ret |-> TRUE,
              events |-> <<NutrientsSpent(amount, purpose)>>]
        ELSE [nutrients |-> r.nutrients, ret |-> FALSE, events |-> <<>>]

\* try_spend_nutrients passing needed and available to the failure
\* notification in the wrong order
try_spend_nutrients_swappedArgs(amount, purpose, n) ==
    LET available == n.current
        r == NutrientsSpend(n, amount)
    IN  IF r.ret
        THEN [nutrients |-> r.nutrients, ret |-> TRUE,
              events |-> <<NutrientsSpent(amount, purpose)>>]
        ELSE [nutrients |-> r.nutrients, ret |-> FALSE,
              events |-> <<NutrientSpendFailed(available, amount, purpose)>>]

\* try_spend_nutrients.  Result: the pool, the events sent, the returned flag.
try_spend_nutrients(amount, purpose, n) ==
    LET available == n.current
        r == NutrientsSpend(n, amount)
    IN  IF r.ret
        THEN [nutrients |-> r.nutrients, ret |-> TRUE,
              events |-> <<NutrientsSpent(amount, purpose)>>]
        ELSE [nutrients |-> r.nutrients, ret |-> FALSE,
              events |-> <<NutrientSpendFailed(amount, available, purpose)>>]

\* The frame with passive_nutrient_generation registered without run_if
ProgFrame_ungated(delta) ==
    LET entered == IF next_state = NoState THEN state ELSE next_state
        r == passive_nutrient_generation(delta, network_stats,
                                         PassiveNutrientConfigDefault, nutrients)
    IN  /\ state' = entered
        /\ next_state' = NoState
        /\ nutrients' = r.nutrients
        /\ events' = r.events
        /\ call' = [op |-> "frame", amount |-> delta, purpose |-> "None", ret |-> FALSE]
        /\ UNCHANGED <<network_stats, phase, cores, coresSpawned, core_entity>>
        /\ UNCHANGED <<selVars, ioVars, graphVars, miscVars>>

\* One frame of the app of StatesPlugin and ProgressionPlugin: the
\* StateTransition schedule applies the pending request (no system of this
\* app runs on a transition), then the Update schedule runs
\* passive_nutrient_generation if in_state(Playing).
ProgFrame(delta) ==
    LET entered == IF next_state = NoState THEN state ELSE next_state
        r == IF entered = "Playing"
             THEN passive_nutrient_generation(delta, network_stats,
                                              PassiveNutrientConfigDefault, nutrients)
             ELSE [nutrients |-> nutrients, events |-> <<>>]
    IN  /\ state' = entered
        /\ next_state' = NoState
        /\ nutrients' = r.nutrients
        /\ events' = r.events
        /\ call' = [op |-> "frame", amount |-> delta, purpose |-> "None", ret |-> FALSE]
        /\ UNCHANGED <<network_stats, phase, cores, coresSpawned, core_entity>>
        /\ UNCHANGED <<selVars, ioVars, graphVars, miscVars>>

\* NextState::set between two frames.
ProgRequestState(s) ==
    /\ next_state' = s
    /\ events' = <<>>
    /\ call' = [op |-> "set_state", amount |-> 0, purpose |-> "None", ret |-> FALSE]
    /\ UNCHANGED <<nutrients, network_stats, state, phase, cores, coresSpawned, core_entity>>
    /\ UNCHANGED <<selVars, ioVars, graphVars, miscVars>>

\* NetworkStats is overwritten between two frames.
SetStats(stats) ==
    /\ network_stats' = stats
    /\ events' = <<>>
    /\ call' = [op |-> "set_stats", amount |-> 0, purpose |-> "None", ret |-> FALSE]
    /\ UNCHANGED <<nutrients, coreVars>>
    /\ UNCHANGED <<selVars, ioVars, graphVars, miscVars>>

\* A caller adds nutrients.
Add(amount) ==
    /\ nutrients' = NutrientsAdd(nutrients, amount)
    /\ events' = <<>>
    /\ call' = [op |-> "add", amount |-> amount, purpose |-> "None", ret |-> FALSE]
    /\ UNCHANGED <<network_stats, coreVars>>
    /\ UNCHANGED <<selVars, ioVars, graphVars, miscVars>>

\* A caller spends nutrients.
Spend(amount) ==
    /\ LET r == NutrientsSpend(nutrients, amount)
       IN  /\ nutrients' = r.nutrients
           /\ call' = [op |-> "spend", amount |-> amount, purpose |-> "None", ret |-> r.ret]
    /\ events' = <<>>
    /\ UNCHANGED <<network_stats, coreVars>>
    /\ UNCHANGED <<selVars, ioVars, graphVars, miscVars>>

\* A caller raises the capacity.
IncreaseMax(amount) ==
    /\ nutrients.max + amount <= NutrientsDefault.max + MaxIncrease * 500
    /\ nutrients' = NutrientsIncreaseMax(nutrients, amount)
    /\ events' = <<>>
    /\ call' = [op |-> "increase_max", amount |-> amount, purpose |-> "None", ret |-> FALSE]
    /\ UNCHANGED <<network_stats, coreVars>>
    /\ UNCHANGED <<selVars, ioVars, graphVars, miscVars>>

\* A caller goes through the spend protocol.
TrySpend(amount, purpose) ==
    /\ LET r == try_spend_nutrients(amount, purpose, nutrients)
       IN  /\ nutrients' = r.nutrients
           /\ events' = r.events
           /\ call' = [op |-> "try_spend", amount |-> amount, purpose |-> purpose, ret |-> r.ret]
    /\ UNCHANGED <<network_stats, coreVars>>
    /\ UNCHANGED <<selVars, ioVars, graphVars, miscVars>>

InitProg == SelIdle /\ IoIdle /\ CoreIdle /\ GraphIdle /\ ProgIdle /\ MiscIdle

NextProg ==
    \/ \E delta \in DeltaValues : ProgFrame(delta)
    \/ \E s \in GameState : ProgRequestState(s)
    \/ \E stats \in StatsValues : SetStats(stats)
    \/ \E amount \in NutrientAmounts : Add(amount)
    \/ \E amount \in NutrientAmounts : Spend(amount)
    \/ \E amount \in NutrientAmounts : IncreaseMax(amount)
    \/ \E amount \in NutrientAmounts, purpose \in PurposeValues : TrySpend(amount, purpose)

SpecProg == InitProg /\ [][NextProg]_vars

InitSel == SelIdle /\ IoIdle /\ CoreIdle /\ GraphIdle /\ ProgIdle /\ MiscIdle

NextSel ==
    \/ SelectGrowthTip
    \/ UpdateSelectedTipDirection
    \/ \E pressed \in BOOLEAN, cursor \in Points \cup {NoPos} : SetInput(pressed, cursor)
    \/ \E pos \in Points : SpawnTip(pos)
    \/ \E t \in 1..MaxTips : DespawnTip(t)

SpecSel == InitSel /\ [][NextSel]_vars

InitCore == SelIdle /\ IoIdle /\ CoreIdle /\ GraphIdle /\ ProgIdle /\ MiscIdle

NextCore ==
    \/ StateTransition
    \/ Update
    \/ \E s \in GameState : RequestState(s)
    \/ \E c \in 1..MaxCores, a \in DamageAmounts : Damage(c, a)

SpecCore == InitCore /\ [][NextCore]_vars

(***************************************************************************)
(* The frames of the network plugin while the game is played               *)
(***************************************************************************)
\* The app is in Playing with nothing pending, as after the frame that
\* entered Playing from Menu: spawn_core_node has run once.
NetIdle ==
    /\ state = "Playing"
    /\ next_state = NoState
    /\ phase = "StateTransition"
    /\ LET r == OnEnter("Playing", [c \in {} |-> 0], 0, NoEntity)
       IN  /\ cores = r[1]
           /\ coresSpawned = r[2]
           /\ core_entity = r[3]

\* One frame in Playing: the Update systems NetworkPlugin::build registers
\* under run_if(in_state(Playing)) that act on the modelled state,
\* check_core_death and select_growth_tip (update_tendril_animation only
\* advances the animation clock).  The two touch disjoint state.
NetworkUpdate ==
    /\ state = "Playing"
    /\ next_state = NoState
    /\ next_state' = check_core_death(cores, next_state)
    /\ \E r \in select_growth_tip(input, active_tip, tips) :
          /\ tips' = r.tips
          /\ active_tip' = r.active_tip
    /\ UNCHANGED <<tipsSpawned, input>>
    /\ UNCHANGED <<state, phase, cores, coresSpawned, core_entity>>
    /\ UNCHANGED <<graphVars, progVars, miscVars, ioVars>>

InitNet == SelIdle /\ IoIdle /\ NetIdle /\ GraphIdle /\ ProgIdle /\ MiscIdle

NextNet ==
    \/ NetworkUpdate
    \/ \E pressed \in BOOLEAN, cursor \in Points \cup {NoPos} : SetInput(pressed, cursor)
    \/ \E pos \in Points : SpawnTip(pos)
    \/ \E t \in 1..MaxTips : DespawnTip(t)

SpecNet == InitNet /\ [][NextNet]_vars

(***************************************************************************)
(* The Health component                                                    *)
(***************************************************************************)
\* Capacities a Health is created with: Health::new(max).
HealthMaxValues == {0, 40, 100}

\* Amounts callers pass to damage and heal.
HealthAmounts == {0, 10, 25, 40, 100}

\* Health::heal: (current + amount).min(max)
HealthHeal(h, max, amount) == Min2(h + amount, max)

\* A caller damages the component.
HealthCallDamage(amount) ==
    /\ hp' = [hp EXCEPT !.current = HealthDamage(hp.current, amount)]
    /\ call' = [op |-> "damage", amount |-> amount, purpose |-> "None", ret |-> FALSE]
    /\ UNCHANGED <<run_stats, pause_state, keyboard, controller,
                   network_children, segment, style, color>>
    /\ UNCHANGED <<nutrients, network_stats, events>>
    /\ UNCHANGED <<selVars, ioVars, coreVars, graphVars>>

\* A caller heals the component.
HealthCallHeal(amount) ==
    /\ hp' = [hp EXCEPT !.current = HealthHeal(hp.current, hp.max, amount)]
    /\ call' = [op |-> "heal", amount |-> amount, purpose |-> "None", ret |-> FALSE]
    /\ UNCHANGED <<run_stats, pause_state, keyboard, controller,
                   network_children, segment, style, color>>
    /\ UNCHANGED <<nutrients, network_stats, events>>
    /\ UNCHANGED <<selVars, ioVars, coreVars, graphVars>>

\* A caller asks is_dead().
HealthCallIsDead ==
    /\ call' = [op |-> "is_dead", amount |-> 0, purpose |-> "None",
                ret |-> is_dead(hp.current)]
    /\ UNCHANGED miscVars
    /\ UNCHANGED <<nutrients, network_stats, events>>
    /\ UNCHANGED <<selVars, ioVars, coreVars, graphVars>>

InitHealth ==
    /\ SelIdle /\ IoIdle /\ CoreIdle /\ GraphIdle
    /\ nutrients = NutrientsDefault
    /\ network_stats = NetworkStatsDefault
    /\ events = <<>>
    /\ call = NoCall
    /\ \E max \in HealthMaxValues : hp = [current |-> HealthNew(max), max |-> max]
    /\ run_stats = RunStatsDefault
    /\ pause_state = PauseStateDefault
    /\ keyboard = [escape_just_pressed |-> FALSE]
    /\ controller = MainCameraDefault
    /\ network_children = <<>>
    /\ segment = TendrilSegmentDefault
    /\ style = TendrilStyleDefault
    /\ color = NoColor

NextHealth ==
    \/ \E amount \in HealthAmounts : HealthCallDamage(amount)
    \/ \E amount \in HealthAmounts : HealthCallHeal(amount)
    \/ HealthCallIsDead

SpecHealth == InitHealth /\ [][NextHealth]_vars

(***************************************************************************)
(* The state plugin: pause input and run statistics                        *)
(***************************************************************************)
\* RunStats::reset: *self = Self::default()
RunStatsReset(rs) == RunStatsDefault

\* reset_run_stats on every entry into Playing, whatever state is left.
OnTransition_onEnterPlaying(exited, entered, rs) ==
    IF entered = "Playing" /\ exited # entered THEN RunStatsReset(rs) ELSE rs

\* The OnTransition schedules StatePlugin::build registers reset_run_stats
\* on.  Result: the new RunStats.
OnTransition(exited, entered, rs) ==
    IF exited = "Menu" /\ entered = "Playing" THEN RunStatsReset(rs)
    ELSE IF exited = "GameOver" /\ entered = "Playing" THEN RunStatsReset(rs)
    ELSE rs

\* handle_pause_input that unpauses whatever caused the pause.
handle_pause_input_anyPause(kb, s, ns, ps) ==
    IF ~kb.escape_just_pressed THEN [next_state |-> ns, pause_state |-> ps]
    ELSE CASE s = "Playing" ->
                [next_state |-> "Paused",
                 pause_state |-> [ps EXCEPT !.was_paused_by_upgrade = FALSE]]
           [] s = "Paused" -> [next_state |-> "Playing", pause_state |-> ps]
           [] OTHER -> [next_state |-> ns, pause_state |-> ps]

\* handle_pause_input.  Result: the new NextState and PauseState.
handle_pause_input(kb, s, ns, ps) ==
    IF ~kb.escape_just_pressed THEN [next_state |-> ns, pause_state |-> ps]
    ELSE CASE s = "Playing" ->
                [next_state |-> "Paused",
                 pause_state |-> [ps EXCEPT !.was_paused_by_upgrade = FALSE]]
           [] s = "Paused" ->
                IF ~ps.was_paused_by_upgrade
                THEN [next_state |-> "Playing", pause_state |-> ps]
                ELSE [next_state |-> ns, pause_state |-> ps]
           [] OTHER -> [next_state |-> ns, pause_state |-> ps]

\* update_run_time: elapsed_time += delta_secs
update_run_time(delta, rs) == [rs EXCEPT !.elapsed_time = @ + delta]

\* The first half of a frame of the app of InputPlugin, StatesPlugin and
\* StatePlugin: PreUpdate replaces the just-pressed keys by this frame's
\* key events, then the StateTransition schedule applies the pending
\* request and runs the OnTransition schedule of the pair.
StateFrameBegin(escape) ==
    /\ phase = "StateTransition"
    /\ phase' = "Update"
    /\ keyboard' = [escape_just_pressed |-> escape]
    /\ next_state' = NoState
    /\ IF next_state = NoState
       THEN UNCHANGED <<state, run_stats>>
       ELSE /\ state' = next_state
            /\ run_stats' = OnTransition(state, next_state, run_stats)
    /\ UNCHANGED <<hp, pause_state, controller, network_children, segment, style, color>>
    /\ UNCHANGED <<cores, coresSpawned, core_entity>>
    /\ UNCHANGED <<selVars, ioVars, graphVars, progVars>>

\* The second half: the Update schedule runs handle_pause_input if
\* in_state(Playing).or(in_state(Paused)) and update_run_time if
\* in_state(Playing).
StateFrameUpdate(delta) ==
    /\ phase = "Update"
    /\ phase' = "StateTransition"
    /\ run_stats.elapsed_time + delta <= MaxElapsed
    /\ LET r == IF state \in {"Playing", "Paused"}
                THEN handle_pause_input(keyboard, state, next_state, pause_state)
                ELSE [next_state |-> next_state, pause_state |-> pause_state]
       IN  /\ next_state' = r.next_state
           /\ pause_state' = r.pause_state
    /\ run_stats' = IF state = "Playing" THEN update_run_time(delta, run_stats) ELSE run_stats
    /\ UNCHANGED <<hp, keyboard, controller, network_children, segment, style, color>>
    /\ UNCHANGED <<state, cores, coresSpawned, core_entity>>
    /\ UNCHANGED <<selVars, ioVars, graphVars, progVars>>

\* Another system requests a state between the two halves or between frames.
StateRequest(s) ==
    /\ next_state' = s
    /\ UNCHANGED <<state, phase, cores, coresSpawned, core_entity>>
    /\ UNCHANGED <<selVars, ioVars, graphVars, progVars, miscVars>>

\* The upgrade flow marks or unmarks the pause as its own.
SetPausedByUpgrade(b) ==
    /\ pause_state' = [pause_state EXCEPT !.was_paused_by_upgrade = b]
    /\ UNCHANGED <<hp, run_stats, keyboard, controller, network_children, segment, style, color>>
    /\ UNCHANGED <<selVars, ioVars, coreVars, graphVars, progVars>>

\* A gameplay system records the kills of the run.
SetEnemiesKilled(n) ==
    /\ run_stats' = [run_stats EXCEPT !.enemies_killed = n]
    /\ UNCHANGED <<hp, pause_state, keyboard, controller, network_children, segment, style, color>>
    /\ UNCHANGED <<selVars, ioVars, coreVars, graphVars, progVars>>

InitState == SelIdle /\ IoIdle /\ CoreIdle /\ GraphIdle /\ ProgIdle /\ MiscIdle

NextState ==
    \/ \E escape \in BOOLEAN : StateFrameBegin(escape)
    \/ \E delta \in {0, 1} : StateFrameUpdate(delta)
    \/ \E s \in GameState : StateRequest(s)
    \/ \E b \in BOOLEAN : SetPausedByUpgrade(b)
    \/ SetEnemiesKilled(50)

SpecState == InitState /\ [][NextState]_vars

(***************************************************************************)
(* Camera zoom                                                             *)
(***************************************************************************)
\* CameraSettings::default().zoom_speed = 0.1, as a fraction of 100
ZoomSpeedPercent == 10

\* Zoom limits of the cameras: the defaults, those of the unit tests
\* (0.5 to 3.0), and a single admissible zoom.
ZoomLimits == {<<25, 400>>, <<50, 300>>, <<100, 100>>}

\* MouseWheel.y of one event, in lines.
ScrollValues == {-10, -1, 1, 10}

\* Deltas callers pass to apply_zoom_delta, in hundredths.
ZoomDeltas == {-1000, -50, 0, 50, 1000}

\* The event sequences a frame can read.
ScrollEvents == UNION {[1..n -> ScrollValues] : n \in 0..MaxScroll}

\* f32::clamp
Clamp(x, lo, hi) == IF x < lo THEN lo ELSE IF x > hi THEN hi ELSE x

\* Iterator::sum over the events' y
RECURSIVE SumY(_)
SumY(evs) == IF evs = <<>> THEN 0 ELSE evs[1] + SumY(Tail(evs))

\* clamp_zoom that only enforces the upper limit.
clamp_zoom_upperOnly(c) ==
    [c EXCEPT !.zoom = IF c.zoom > c.max_zoom THEN c.max_zoom ELSE c.zoom]

\* CameraController::clamp_zoom
clamp_zoom(c) == [c EXCEPT !.zoom = Clamp(c.zoom, c.min_zoom, c.max_zoom)]

\* CameraController::apply_zoom_delta
apply_zoom_delta(c, delta) == clamp_zoom([c EXCEPT !.zoom = c.zoom + delta])

\* camera_zoom on the main camera: scroll events in lines, result the camera.
camera_zoom(evs, zoom_speed, c) ==
    LET scroll_delta == SumY(evs)
    IN  IF scroll_delta = 0
        THEN c
        ELSE LET z == apply_zoom_delta(c, (-scroll_delta) * zoom_speed)
             IN  [z EXCEPT !.scale = z.zoom]

\* A frame: camera_zoom reads the MouseWheel events of the frame.
CameraZoomFrame(evs) ==
    /\ controller' = camera_zoom(evs, ZoomSpeedPercent, controller)
    /\ call' = [op |-> "camera_zoom", amount |-> SumY(evs), purpose |-> "None", ret |-> FALSE]
    /\ UNCHANGED <<hp, run_stats, pause_state, keyboard, network_children, segment, style, color>>
    /\ UNCHANGED <<nutrients, network_stats, events>>
    /\ UNCHANGED <<selVars, ioVars, coreVars, graphVars>>

\* A caller changes the zoom directly.
ApplyZoomDelta(delta) ==
    /\ controller' = apply_zoom_delta(controller, delta)
    /\ call' = [op |-> "apply_zoom_delta", amount |-> delta, purpose |-> "None", ret |-> FALSE]
    /\ UNCHANGED <<hp, run_stats, pause_state, keyboard, network_children, segment, style, color>>
    /\ UNCHANGED <<nutrients, network_stats, events>>
    /\ UNCHANGED <<selVars, ioVars, coreVars, graphVars>>

InitCam ==
    /\ SelIdle /\ IoIdle /\ CoreIdle /\ GraphIdle /\ ProgIdle
    /\ \E lim \in ZoomLimits :
          controller = [MainCameraDefault EXCEPT !.min_zoom = lim[1], !.max_zoom = lim[2]]
    /\ hp = [current |-> 100, max |-> 100]
    /\ run_stats = RunStatsDefault
    /\ pause_state = PauseStateDefault
    /\ keyboard = [escape_just_pressed |-> FALSE]
    /\ network_children = <<>>
    /\ segment = TendrilSegmentDefault
    /\ style = TendrilStyleDefault
    /\ color = NoColor

NextCam ==
    \/ \E evs \in ScrollEvents : CameraZoomFrame(evs)
    \/ \E delta \in ZoomDeltas : ApplyZoomDelta(delta)

SpecCam == InitCam /\ [][NextCam]_vars

(***************************************************************************)
(* The NetworkChildren component                                           *)
(***************************************************************************)
\* NetworkChildren::add_child: Vec::push
add_child(v, child) == Append(v, child)

\* NetworkChildren::remove_child: Vec::retain(|&e| e != child)
remove_child(v, child) == SelectSeq(v, LAMBDA e : e # child)

\* A caller adds a child handle.
AddChild(child) ==
    /\ Len(network_children) < MaxChildren
    /\ network_children' = add_child(network_children, child)
    /\ UNCHANGED <<hp, run_stats, pause_state, keyboard, controller, segment, style, color>>
    /\ UNCHANGED <<selVars, ioVars, coreVars, graphVars, progVars>>

\* A caller removes a child handle.
RemoveChild(child) ==
    /\ network_children' = remove_child(network_children, child)
    /\ UNCHANGED <<hp, run_stats, pause_state, keyboard, controller, segment, style, color>>
    /\ UNCHANGED <<selVars, ioVars, coreVars, graphVars, progVars>>

\* NetworkChildren::default(): the empty Vec.
InitChildren == SelIdle /\ IoIdle /\ CoreIdle /\ GraphIdle /\ ProgIdle /\ MiscIdle

NextChildren ==
    \/ \E child \in Entities : AddChild(child)
    \/ \E child \in Entities : RemoveChild(child)

SpecChildren == InitChildren /\ [][NextChildren]_vars

(***************************************************************************)
(* Segment colour                                                          *)
(***************************************************************************)
\* Colours are <<red, green, blue, alpha>> in sRGB, in thousandths; so are
\* the health factor and the corruption level.

\* CORRUPTION_COLOR: Color::srgb(0.5, 0.1, 0.4)
CORRUPTION_COLOR == <<500, 100, 400, 1000>>

\* The colours of TendrilStyle::for_type (Basic, Toxic, Sticky, Explosive)
\* and a translucent custom style.
StyleColors ==
    {<<400, 700, 300, 1000>>, <<600, 200, 700, 1000>>, <<800, 600, 200, 1000>>,
     <<900, 300, 200, 1000>>, <<400, 700, 300, 500>>}

\* The segments segment_color is applied to.
Segments ==
    [health : {-100, 0, 30, 100}, max_health : {-100, 0, 100},
     corrupted : BOOLEAN, corruption_level : {0, 500, 1000}]

\* The product of two numbers in thousandths.
MulK(a, b) == (a * b) \div 1000

\* lerp_color: t is clamped to 0.0 .. 1.0
lerp_color(a, b, t) ==
    LET tc == Clamp(t, 0, 1000)
    IN  <<a[1] + MulK(b[1] - a[1], tc), a[2] + MulK(b[2] - a[2], tc),
          a[3] + MulK(b[3] - a[3], tc), a[4] + MulK(b[4] - a[4], tc)>>

\* segment_color with Health::percentage's convention: no capacity, factor 0.
segment_color_zeroWithoutMax(seg, base) ==
    LET health_factor == IF seg.max_health > 0
                         THEN Clamp((seg.health * 1000) \div seg.max_health, 300, 1000)
                         ELSE 0
        damaged_color == <<MulK(base[1], health_factor), MulK(base[2], health_factor),
                           MulK(base[3], health_factor), base[4]>>
    IN  IF seg.corrupted
        THEN lerp_color(damaged_color, CORRUPTION_COLOR, seg.corruption_level)
        ELSE damaged_color

\* segment_color
segment_color(seg, base) ==
    LET health_factor == IF seg.max_health > 0
                         THEN Clamp((seg.health * 1000) \div seg.max_health, 300, 1000)
                         ELSE 1000
        damaged_color == <<MulK(base[1], health_factor), MulK(base[2], health_factor),
                           MulK(base[3], health_factor), base[4]>>
    IN  IF seg.corrupted
        THEN lerp_color(damaged_color, CORRUPTION_COLOR, seg.corruption_level)
        ELSE damaged_color

\* The renderer computes the colour of the segment.
SegmentColor ==
    /\ color = NoColor
    /\ color' = segment_color(segment, style)
    /\ UNCHANGED <<hp, run_stats, pause_state, keyboard, controller,
                   network_children, segment, style>>
    /\ UNCHANGED <<selVars, ioVars, coreVars, graphVars, progVars>>

InitColor ==
    /\ SelIdle /\ IoIdle /\ CoreIdle /\ GraphIdle /\ ProgIdle
    /\ segment \in Segments
    /\ style \in StyleColors
    /\ color = NoColor
    /\ hp = [current |-> 100, max |-> 100]
    /\ run_stats = RunStatsDefault
    /\ pause_state = PauseStateDefault
    /\ keyboard = [escape_just_pressed |-> FALSE]
    /\ controller = MainCameraDefault
    /\ network_children = <<>>

NextColor == SegmentColor

SpecColor == InitColor /\ [][NextColor]_vars

(***************************************************************************)
(* The network plugin's Update systems across game states                  *)
(***************************************************************************)
\* The Update schedule of one frame with the run condition dropped from the
\* network plugin's systems.
PlayUpdate_ungated ==
    /\ phase = "Update"
    /\ phase' = "StateTransition"
    /\ next_state' = check_core_death(cores, next_state)
    /\ \E r \in select_growth_tip(input, active_tip, tips) :
          /\ tips' = r.tips
          /\ active_tip' = r.active_tip
    /\ UNCHANGED <<tipsSpawned, input>>
    /\ UNCHANGED <<state, cores, coresSpawned, core_entity>>
    /\ UNCHANGED <<graphVars, progVars, miscVars, ioVars>>

\* The Update schedule of one frame in any game state: check_core_death and
\* select_growth_tip are registered under run_if(in_state(Playing)).
PlayUpdate ==
    /\ phase = "Update"
    /\ phase' = "StateTransition"
    /\ IF state = "Playing"
       THEN /\ next_state' = check_core_death(cores, next_state)
            /\ \E r \in select_growth_tip(input, active_tip, tips) :
                  /\ tips' = r.tips
                  /\ active_tip' = r.active_tip
       ELSE UNCHANGED <<next_state, tips, active_tip>>
    /\ UNCHANGED <<tipsSpawned, input>>
    /\ UNCHANGED <<state, cores, coresSpawned, core_entity>>
    /\ UNCHANGED <<graphVars, progVars, miscVars, ioVars>>

\* Tip positions used across game states: two corners 13 apart, so that a
\* cursor on a third corner is 5 from one and 12 from the other.
PlayPoints == {<<0, 0>>, <<12, 5>>}

InitPlay == SelIdle /\ IoIdle /\ CoreIdle /\ GraphIdle /\ ProgIdle /\ MiscIdle

NextPlay ==
    \/ StateTransition
    \/ PlayUpdate
    \/ \E s \in GameState : RequestState(s)
    \/ \E pressed \in BOOLEAN, cursor \in Points \cup {NoPos} : SetInput(pressed, cursor)
    \/ \E pos \in PlayPoints : SpawnTip(pos)
    \/ \E t \in 1..MaxTips : DespawnTip(t)

SpecPlay == InitPlay /\ [][NextPlay]_vars

(***************************************************************************)
(* The traversals as whole calls, on a tree with mirrored links            *)
(***************************************************************************)
RECURSIVE IsConnectedToCore(_, _, _)
\* is_connected_to_core(entity, parents, core): the loop run to its return.
\* k bounds the iterations; a walk over acyclic links returns before.
IsConnectedToCore(cur, c, k) ==
    LET r == is_connected_to_core(cur, c)
    IN  IF r.returned THEN r.value
        ELSE IF k = 0 THEN FALSE
        ELSE IsConnectedToCore(r.current, c, k - 1)

RECURSIVE PathToCore(_, _, _, _)
\* path_to_core(entity, parents, core): the loop run to its return.
PathToCore(cur, pth, c, k) ==
    LET r == path_to_core(cur, pth, c)
    IN  IF r.returned THEN r.value
        ELSE IF k = 0 THEN None
        ELSE PathToCore(r.current, r.path, c, k - 1)

RECURSIVE DownstreamLoop(_, _, _)
\* The while loop of find_downstream_segments run until the stack is empty.
DownstreamLoop(stk, res, k) ==
    LET r == find_downstream_segments(stk, res)
    IN  IF r.returned THEN r.value
        ELSE IF k = 0 THEN r.result
        ELSE DownstreamLoop(r.stack, r.result, k - 1)

\* find_downstream_segments whose stack starts with the children of the
\* entity instead of the entity.
FindDownstreamSegments_childrenOnly(e) ==
    DownstreamLoop(IF ChildrenGet(e) = None THEN <<>> ELSE ChildrenGet(e)[1],
                   <<>>, MaxDescents)

\* find_downstream_segments(entity, children): stack = vec![entity].
FindDownstreamSegments(e) == DownstreamLoop(<<e>>, <<>>, MaxDescents)

RECURSIVE ReachesCore(_, _)
\* Following the parent links from e leads to the core within k links.
ReachesCore(e, k) ==
    IF e = core THEN TRUE
    ELSE IF k = 0 \/ e \notin alive \/ parents[e] = NoEntity THEN FALSE
    ELSE ReachesCore(parents[e], k - 1)

\* A connected tree with mirrored links: the live entities are the core,
\* which has no NetworkParent, and segments whose parent links lead to the
\* core; the NetworkChildren of an entity lists exactly the entities whose
\* NetworkParent names it, and an entity without child may lack the component.
MirroredTree ==
    /\ alive \in SUBSET Entities
    /\ core \in alive
    /\ parents \in [Entities -> Entities \cup {NoEntity}]
    /\ \A e \in Entities : (e \notin alive \/ e = core) => parents[e] = NoEntity
    /\ \A e \in alive : ReachesCore(e, NumEntities)
    /\ children \in [Entities -> {None} \cup {Some(SortedVec(S)) : S \in SUBSET Entities}]
    /\ \A e \in Entities \ alive : children[e] = None
    /\ \A e \in alive :
          LET kids == {x \in alive : parents[x] = e}
          IN  \/ children[e] = Some(SortedVec(kids))
              \/ kids = {} /\ children[e] = None

\* A caller asks for the segments downstream of e, for the path of x to the
\* core, for the connectivity of x and for the segments downstream of the core.
MirrorQuery(e, x) ==
    /\ ret' = [entity |-> e,
               x |-> x,
               find_downstream_segments |-> FindDownstreamSegments(e),
               path_to_core |-> PathToCore(x, <<>>, core, MaxHops),
               is_connected_to_core |-> IsConnectedToCore(x, core, MaxHops),
               downstream_of_core |-> FindDownstreamSegments(core)]
    /\ UNCHANGED <<alive, parents, children, entity, core, pc, current, hops,
                   distance, path, stack, result>>
    /\ UNCHANGED <<selVars, ioVars, coreVars, progVars, miscVars>>

InitMirror ==
    /\ SelIdle /\ IoIdle
    /\ CoreIdle
    /\ ProgIdle
    /\ MiscIdle
    /\ MirroredTree
    /\ entity = core
    /\ pc = "done"
    /\ current = NoEntity
    /\ hops = 0
    /\ distance = 0
    /\ path = <<>>
    /\ stack = <<>>
    /\ result = <<>>
    /\ ret = [op \in {} |-> 0]

NextMirror == \E e \in alive, x \in Entities : MirrorQuery(e, x)

SpecMirror == InitMirror /\ [][NextMirror]_vars

(***************************************************************************)
(* Nutrients::add and Nutrients::spend with amounts of either sign         *)
(***************************************************************************)
\* Amounts of either sign passed to add and spend.
SignedAmounts == {-500, -50, 0, 50, 500}

\* The pool is followed while current is within MaxExcess * 50.0 of 0..max.
PoolFollowed(n) ==
    /\ n.current >= 0 - MaxExcess * 500
    /\ n.current <= n.max + MaxExcess * 500

InitPool == SelIdle /\ IoIdle /\ CoreIdle /\ GraphIdle /\ ProgIdle /\ MiscIdle

NextPool ==
    \/ \E amount \in SignedAmounts :
          PoolFollowed(NutrientsAdd(nutrients, amount)) /\ Add(amount)
    \/ \E amount \in SignedAmounts :
          PoolFollowed(NutrientsSpend(nutrients, amount).nutrients) /\ Spend(amount)

SpecPool == InitPool /\ [][NextPool]_vars

(***************************************************************************)
(* The input refresh of a frame                                            *)
(***************************************************************************)
\* The keys and buttons that go down and up.  KeyW stands for the eight
\* movement keys and ShiftLeft for the two Shift keys, which the systems
\* treat alike; Escape, whose edge is read like that of Space, stays up.
KeyCodes     == {"Space", "ShiftLeft", "KeyW"}
MouseButtons == {"Left", "Right"}

\* MouseWheel events of a frame, event.y in tenths.
WheelEvents == {<<>>, <<5>>, <<10, 10>>, <<-10, -5>>}

\* The values a ButtonInput can have after the events of a frame: a button
\* that went down is just pressed; one pressed and released within the
\* frame, or released and pressed again, is just pressed as well.
ButtonInputAfter(b, universe) ==
    UNION {{[pressed |-> P, just_pressed |-> J] :
               J \in {K \in SUBSET universe : (P \ b.pressed) \subseteq K}} :
           P \in SUBSET universe}

\* InputActions::clear that leaves primary_just_pressed as it is.
InputActionsClear_keepsPrimaryEdge(a) ==
    [a EXCEPT !.move_direction = <<0, 0>>,
              !.secondary_just_pressed = FALSE,
              !.pause_just_pressed = FALSE,
              !.zoom_delta = 0]

\* InputActions::clear
InputActionsClear(a) ==
    [a EXCEPT !.move_direction = <<0, 0>>,
              !.primary_just_pressed = FALSE,
              !.secondary_just_pressed = FALSE,
              !.pause_just_pressed = FALSE,
              !.zoom_delta = 0]

\* update_keyboard_input
update_keyboard_input(keyboard_, a) ==
    LET direction == IF "KeyW" \in keyboard_.pressed THEN <<0, 1>> ELSE <<0, 0>>
    IN  [a EXCEPT
           !.move_direction = IF direction # <<0, 0>> THEN direction ELSE @,
           !.pause_just_pressed = IF "Escape" \in keyboard_.just_pressed THEN TRUE ELSE @,
           !.primary_just_pressed = IF "Space" \in keyboard_.just_pressed THEN TRUE ELSE @,
           !.primary_held = "Space" \in keyboard_.pressed,
           !.secondary_just_pressed =
               IF "ShiftLeft" \in keyboard_.just_pressed THEN TRUE ELSE @,
           !.secondary_held = "ShiftLeft" \in keyboard_.pressed]

\* update_mouse_input
update_mouse_input(mouse_, a) ==
    [a EXCEPT
       !.primary_just_pressed = IF "Left" \in mouse_.just_pressed THEN TRUE ELSE @,
       !.primary_held = IF "Left" \in mouse_.pressed THEN TRUE ELSE @,
       !.secondary_just_pressed = IF "Right" \in mouse_.just_pressed THEN TRUE ELSE @,
       !.secondary_held = IF "Right" \in mouse_.pressed THEN TRUE ELSE @]

\* update_scroll_input: the sum of the events, clamped to -1.0..1.0.
update_scroll_input(evs, a) ==
    [a EXCEPT !.zoom_delta = Clamp(@ + SumY(evs), -10, 10)]

\* The engine's input systems take in the key and button events that
\* arrived since the last frame.
DeviceInput ==
    /\ input_step = "input"
    /\ input_step' = "clear_input_actions"
    /\ keys' \in ButtonInputAfter(keys, KeyCodes)
    /\ mouse' \in ButtonInputAfter(mouse, MouseButtons)
    /\ UNCHANGED <<actions, tracker>>
    /\ UNCHANGED <<selVars, coreVars, graphVars, progVars, miscVars>>

\* PreUpdate: clear_input_actions, before the chain.
ClearInputActions ==
    /\ input_step = "clear_input_actions"
    /\ input_step' = "update_keyboard_input"
    /\ actions' = InputActionsClear(actions)
    /\ UNCHANGED <<keys, mouse, tracker>>
    /\ UNCHANGED <<selVars, coreVars, graphVars, progVars, miscVars>>

\* The chain's first system.
UpdateKeyboardInput ==
    /\ input_step = "update_keyboard_input"
    /\ input_step' = "update_mouse_input"
    /\ actions' = update_keyboard_input(keys, actions)
    /\ UNCHANGED <<keys, mouse, tracker>>
    /\ UNCHANGED <<selVars, coreVars, graphVars, progVars, miscVars>>

\* The chain's second system.
UpdateMouseInput ==
    /\ input_step = "update_mouse_input"
    /\ input_step' = "update_scroll_input"
    /\ actions' = update_mouse_input(mouse, actions)
    /\ UNCHANGED <<keys, mouse, tracker>>
    /\ UNCHANGED <<selVars, coreVars, graphVars, progVars, miscVars>>

\* The chain's third system; the fourth, update_cursor_world_position,
\* writes CursorWorldPosition only.
UpdateScrollInput(evs) ==
    /\ input_step = "update_scroll_input"
    /\ input_step' = "input"
    /\ actions' = update_scroll_input(evs, actions)
    /\ UNCHANGED <<keys, mouse, tracker>>
    /\ UNCHANGED <<selVars, coreVars, graphVars, progVars, miscVars>>

InitInput == SelIdle /\ CoreIdle /\ GraphIdle /\ ProgIdle /\ MiscIdle /\ IoIdle

NextInput ==
    \/ DeviceInput
    \/ ClearInputActions
    \/ UpdateKeyboardInput
    \/ UpdateMouseInput
    \/ \E evs \in WheelEvents : UpdateScrollInput(evs)

SpecInput == InitInput /\ [][NextInput]_vars

(***************************************************************************)
(* The frame-time tracker                                                  *)
(***************************************************************************)
\* Frame times recorded, in milliseconds.
FrameDeltas == {8, 16, 33, 100}

\* FrameTimeTracker::new
FrameTimeTrackerNew(max_samples) ==
    [frame_times |-> <<>>, max_samples |-> max_samples, panicked |-> FALSE]

\* FrameTimeTracker::record.  Vec::remove(0) panics on an empty Vec.
FrameTimeTrackerRecord(t, delta) ==
    IF Len(t.frame_times) >= t.max_samples
    THEN IF Len(t.frame_times) = 0
         THEN [t EXCEPT !.panicked = TRUE]
         ELSE [t EXCEPT !.frame_times = Append(Tail(t.frame_times), delta)]
    ELSE [t EXCEPT !.frame_times = Append(t.frame_times, delta)]

\* FrameTimeTracker::sample_count
sample_count(t) == Len(t.frame_times)

\* A frame time is recorded; nothing runs after a panic.
Record(delta) ==
    /\ ~tracker.panicked
    /\ tracker' = FrameTimeTrackerRecord(tracker, delta)
    /\ UNCHANGED <<keys, mouse, actions, input_step>>
    /\ UNCHANGED <<selVars, coreVars, graphVars, progVars, miscVars>>

InitTracker ==
    /\ SelIdle /\ CoreIdle /\ GraphIdle /\ ProgIdle /\ MiscIdle
    /\ keys = ButtonInputDefault
    /\ mouse = ButtonInputDefault
    /\ actions = InputActionsDefault
    /\ input_step = "input"
    /\ \E max_samples \in 0..MaxSamples : tracker = FrameTimeTrackerNew(max_samples)

NextTracker == \E delta \in FrameDeltas : Record(delta)

SpecTracker == InitTracker /\ [][NextTracker]_vars

(***************************************************************************)
(* Properties of the selection protocol (SpecSel)                          *)
(***************************************************************************)
Selected == {t \in DOMAIN tips : tips[t].selected}

\* C1: at most one GrowthTip has selected = true, after any sequence of
\* selection and aiming steps, input changes, spawns and despawns.
C1_AtMostOneSelected == Cardinality(Selected) <= 1

\* C1 witness: two live tips, the active one selected, the other one aimed
\* earlier, that is, it was the active tip before and has been deselected.
C1_Witness ==
    /\ Cardinality(DOMAIN tips) = 2
    /\ active_tip \in Selected
    /\ \E u \in DOMAIN tips \ {active_tip} :
          tips[u].direction # normalize_or_zero(<<1, 0>>)

\* C2 as stated: the slot is Some(t) if and only if exactly one tip is
\* selected and that tip is t.
C2_SlotIffOneSelected ==
    \A t \in 1..MaxTips : (active_tip = t) <=> (Selected = {t})

\* C2 amended: the slot names a tip that still resolves if and only if
\* exactly one tip is selected and it is that tip; a slot whose tip has been
\* despawned keeps the stale handle while no tip is selected.
C2_LiveSlotIffOneSelected ==
    /\ \A t \in 1..MaxTips :
          (active_tip = t /\ t \in DOMAIN tips) <=> (Selected = {t})
    /\ (active_tip # NoEntity /\ active_tip \notin DOMAIN tips) => Selected = {}

\* C2 witness: the slot holds the handle of a despawned tip while another
\* tip is alive.
C2_Witness ==
    /\ active_tip # NoEntity
    /\ active_tip \notin DOMAIN tips
    /\ DOMAIN tips # {}

(***************************************************************************)
(* Properties of the core lifecycle (SpecCore)                             *)
(***************************************************************************)
\* C3: at most one CoreNode exists at any time, and exactly one exists in
\* every frame whose Update schedule runs in the Playing state.
C3_SingleCore ==
    /\ Cardinality(DOMAIN cores) <= 1
    /\ (phase = "Update" /\ state = "Playing") => Cardinality(DOMAIN cores) = 1

\* C4: in the Menu state, in particular right after the transition into it,
\* no CoreNode exists and the CoreNodeEntity resource is absent.
C4_MenuHasNoCore ==
    state = "Menu" => (DOMAIN cores = {} /\ core_entity = NoEntity)

\* C4 witness: the state is Menu again after cores have been spawned.
C4_Witness ==
    /\ state = "Menu"
    /\ phase = "Update"
    /\ coresSpawned >= 2

\* C5: an Update schedule that runs in Playing while some CoreNode has
\* Health.current <= 0 leaves a request for GameOver.
C5_DeathCheckRequestsGameOver ==
    [][(/\ phase = "Update"
        /\ phase' = "StateTransition"
        /\ state = "Playing"
        /\ \E c \in DOMAIN cores : is_dead(cores[c]))
       => next_state' = "GameOver"]_vars

(***************************************************************************)
(* Properties of the graph traversals (SpecGraph, SpecGraphFair)           *)
(***************************************************************************)
Range(seq) == {seq[i] : i \in 1..Len(seq)}

NoDuplicate(seq) == \A i, j \in 1..Len(seq) : i # j => seq[i] # seq[j]

RECURSIVE UpClosure(_, _)
\* The handles reached from the set S in at most k parent links.
UpClosure(S, k) ==
    IF k = 0 THEN S
    ELSE UpClosure(S \cup ({ParentsGet(x) : x \in S} \ {NoEntity}), k - 1)

\* The handles reached from e by following parent links, e included.
Ancestors(e) == UpClosure({e}, NumEntities)

Kids(e) == IF ChildrenGet(e) = None THEN {} ELSE Range(ChildrenGet(e)[1])

RECURSIVE DownClosure(_, _)
\* The handles reached from the set S in at most k children links.
DownClosure(S, k) ==
    IF k = 0 THEN S
    ELSE DownClosure(S \cup UNION {Kids(x) : x \in S}, k - 1)

\* e and its transitive children.
Descendants(e) == DownClosure({e}, NumEntities)

IsAcyclicParents ==
    \A e \in Entities : e \notin UpClosure({ParentsGet(e)} \ {NoEntity}, NumEntities)

IsAcyclicChildren ==
    \A e \in Entities : e \notin DownClosure(Kids(e), NumEntities)

\* The children links form a tree (a forest): no cycle, no shared child.
IsTree ==
    /\ IsAcyclicChildren
    /\ \A a, b \in Entities : a # b => Kids(a) \cap Kids(b) = {}

\* The three parent walks have returned.
WalksDone == pc \in {"find_downstream_segments", "done"}

\* C6: when core is reached from the start entity by parent links,
\* path_to_core returns a path that starts with the entity, ends with core,
\* follows the parent links, and is one longer than distance_from_core;
\* for the core itself the path is [core] and the distance 0.
C6_PathToCore ==
    (WalksDone /\ core \in Ancestors(entity)) =>
        LET p == ret["path_to_core"]
            d == ret["distance_from_core"]
        IN  /\ p # None
            /\ d # None
            /\ Len(p[1]) >= 1
            /\ p[1][1] = entity
            /\ p[1][Len(p[1])] = core
            /\ \A i \in 1..(Len(p[1]) - 1) : ParentsGet(p[1][i]) = p[1][i + 1]
            /\ Len(p[1]) = d[1] + 1
            /\ entity = core => (p = Some(<<core>>) /\ d = Some(0))

\* C6 witness: a connected entity two parent links away from the core.
C6_Witness ==
    /\ WalksDone
    /\ core \in Ancestors(entity)
    /\ ret["distance_from_core"] = Some(2)
    /\ Len(ret["path_to_core"][1]) = 3

\* C7: over acyclic parent links the three walks agree on connectivity,
\* and all three report not-connected when core is not reached from the
\* entity by parent links.
C7_WalksAgree ==
    (WalksDone /\ IsAcyclicParents) =>
        LET c == ret["is_connected_to_core"]
            d == ret["distance_from_core"]
            p == ret["path_to_core"]
        IN  /\ (c = TRUE) <=> (d # None)
            /\ (d # None) <=> (p # None)
            /\ core \notin Ancestors(entity) => (c = FALSE /\ d = None /\ p = None)

\* C7 witness: an entity whose parent chain ends in another root.
C7_Witness ==
    /\ WalksDone
    /\ IsAcyclicParents
    /\ core \notin Ancestors(entity)
    /\ ParentsGet(entity) # NoEntity
    /\ ret["is_connected_to_core"] = FALSE

\* C8: find_downstream_segments lists no entity twice, whatever the
\* children links are, a shared child included.
C8_NoEntityTwice ==
    pc = "done" => NoDuplicate(ret["find_downstream_segments"])

\* C9: over children links that form a tree, find_downstream_segments(e)
\* lists e and its transitive children, each exactly once; an entity
\* without the children component yields [e].
C9_DownstreamOfTree ==
    pc = "done" =>
        LET r == ret["find_downstream_segments"]
        IN  /\ IsTree => /\ Range(r) = Descendants(entity)
                         /\ NoDuplicate(r)
                         /\ Len(r) = Cardinality(Descendants(entity))
            /\ ChildrenGet(entity) = None => r = <<entity>>

\* C9 witness: a tree in which the start entity has two children.
C9_Witness ==
    /\ pc = "done"
    /\ IsTree
    /\ Cardinality(Kids(entity)) = 2
    /\ Len(ret["find_downstream_segments"]) = 3

\* C10: over acyclic links, dangling handles and missing components
\* included, all four traversals return, and a parent walk makes at most
\* NumEntities hops.
C10_Terminates ==
    /\ (IsAcyclicParents /\ IsAcyclicChildren) => <>(pc = "done")
    /\ []((IsAcyclicParents /\ ~WalksDone) => hops <= NumEntities)

\* C10 witness: everything has returned on acyclic links in which a live
\* entity's parent handle names a despawned entity.
C10_Witness ==
    /\ pc = "done"
    /\ IsAcyclicParents
    /\ IsAcyclicChildren
    /\ \E e \in alive : parents[e] # NoEntity /\ parents[e] \notin alive

(***************************************************************************)
(* Nutrient economy: claims                                                *)
(***************************************************************************)
\* C11: starting from the default pool, after any sequence of add, spend and
\* increase_max with non-negative amounts and of passive-generation frames,
\* 0 <= current <= max.
C11_PoolWithinBounds ==
    /\ 0 <= nutrients.current
    /\ nutrients.current <= nutrients.max

\* A passive frame has filled a pool whose capacity was raised.
C11_Witness ==
    /\ call.op = "frame"
    /\ events # <<>>
    /\ nutrients.max > NutrientsDefault.max
    /\ nutrients.current = nutrients.max

\* C12: spend(amount) is all-or-nothing: with current >= amount it returns
\* true and current goes down by exactly amount, max untouched; otherwise it
\* returns false and the pool is unchanged; can_afford(amount) is true exactly
\* when spend succeeds.
C12_SpendAllOrNothing ==
    [][call'.op = "spend" =>
        /\ IF nutrients.current >= call'.amount
           THEN /\ call'.ret
                /\ nutrients'.current = nutrients.current - call'.amount
                /\ nutrients'.max = nutrients.max
           ELSE /\ ~call'.ret
                /\ nutrients' = nutrients
        /\ NutrientsCanAfford(nutrients, call'.amount) <=> call'.ret]_vars

\* spend of exactly the pool has emptied it.
C12_Witness ==
    /\ call.op = "spend"
    /\ call.amount > 0
    /\ call.ret
    /\ nutrients.current = 0

\* C13: a frame outside Playing leaves the pool unchanged and sends no
\* NutrientsGained, whatever NetworkStats holds.
C13_OnlyInPlaying ==
    [][call'.op = "frame" /\ state' # "Playing" =>
        /\ nutrients' = nutrients
        /\ \A i \in 1..Len(events') : events'[i].kind # "NutrientsGained"]_vars

\* A frame of one second ran in Paused with a network that has income.
C13_Witness ==
    /\ call.op = "frame"
    /\ call.amount > 0
    /\ state = "Paused"
    /\ network_stats.connected_segments > 0
    /\ nutrients.current < nutrients.max

\* C14: a Playing frame sends exactly one NutrientsGained, of source
\* PassiveAbsorption and of amount (connected_segments * per_segment_rate +
\* territory_coverage * territory_bonus_rate) * delta, if that amount is
\* strictly positive; otherwise it sends nothing and leaves the pool.
C14_PassiveIncome ==
    [][call'.op = "frame" /\ state' = "Playing" =>
        LET income ==
              ((network_stats.connected_segments * 1
                + (network_stats.territory_coverage * 10) \div 10)
               * call'.amount) \div 10
        IN  IF income > 0
            THEN events' = <<[kind |-> "NutrientsGained", amount |-> income,
                              available |-> 0, tag |-> "PassiveAbsorption"]>>
            ELSE events' = <<>> /\ nutrients' = nutrients]_vars

\* A Playing frame of one second has absorbed 5.0 nutrients.
C14_Witness ==
    /\ call.op = "frame"
    /\ state = "Playing"
    /\ Len(events) = 1
    /\ events[1].kind = "NutrientsGained"
    /\ events[1].amount = 50

\* C15: every try_spend_nutrients call sends exactly one notification: on
\* success NutrientsSpent(amount, purpose), pool reduced, true returned; on
\* failure NutrientSpendFailed(amount, current before the call, purpose),
\* pool unchanged, false returned.
C15_SpendProtocol ==
    [][call'.op = "try_spend" =>
        IF nutrients.current >= call'.amount
        THEN /\ call'.ret
             /\ nutrients' = [nutrients EXCEPT !.current = @ - call'.amount]
             /\ events' = <<[kind |-> "NutrientsSpent", amount |-> call'.amount,
                             available |-> 0, tag |-> call'.purpose]>>
        ELSE /\ ~call'.ret
             /\ nutrients' = nutrients
             /\ events' = <<[kind |-> "NutrientSpendFailed", amount |-> call'.amount,
                             available |-> nutrients.current,
                             tag |-> call'.purpose]>>]_vars

\* A call has failed for want of nutrients and said so.
C15_Witness ==
    /\ call.op = "try_spend"
    /\ ~call.ret
    /\ Len(events) = 1
    /\ events[1].kind = "NutrientSpendFailed"
    /\ events[1].available < events[1].amount
    /\ events[1].available > 0

(***************************************************************************)
(* Selection and aiming: claims about one run of each system                *)
(***************************************************************************)
\* The frame is a click frame: the button went down and the cursor has a
\* world position.
ClickFrame == input.primary_just_pressed /\ input.cursor # NoPos

\* Squared distance from the cursor to tip t, before the step.
CursorDist2(t) == distance_squared(input.cursor, tips[t].position)

\* The tips within the selection radius of the cursor, before the step.
InRange == {t \in DOMAIN tips : CursorDist2(t) <= 12 * 12}

\* C16: on a click frame with a tip within the radius (inclusive), the
\* selection step selects a tip of minimum squared distance among those in
\* range: it is flagged, the slot names it, and no tip outside the radius is
\* selected.
C16_NearestInRange ==
    [][SelectGrowthTip /\ ClickFrame /\ InRange # {} =>
        /\ active_tip' \in InRange
        /\ active_tip' \in DOMAIN tips'
        /\ tips'[active_tip'].selected
        /\ \A u \in InRange : CursorDist2(active_tip') <= CursorDist2(u)
        /\ \A t \in DOMAIN tips' : tips'[t].selected => t \in InRange]_vars

\* Of two tips in range, one exactly on the radius, the nearer is selected.
C16_Witness ==
    /\ ClickFrame
    /\ active_tip \in DOMAIN tips
    /\ tips[active_tip].selected
    /\ \E u \in DOMAIN tips :
          /\ CursorDist2(u) = 12 * 12
          /\ CursorDist2(active_tip) < CursorDist2(u)

\* C17: on a click frame with no tip within the radius, the slot becomes
\* None and the previously active tip, if it still exists, is not selected.
C17_ClickOnEmptyDeselects ==
    [][SelectGrowthTip /\ ClickFrame /\ InRange = {} =>
        /\ active_tip' = NoEntity
        /\ active_tip \in DOMAIN tips' => ~tips'[active_tip].selected]_vars

\* A tip that was aimed while active is out of range of the click, the slot
\* is empty and the tip is not selected.
C17_Witness ==
    /\ ClickFrame
    /\ active_tip = NoEntity
    /\ InRange = {}
    /\ \E t \in DOMAIN tips :
          /\ tips[t].direction # normalize_or_zero(<<1, 0>>)
          /\ ~tips[t].selected

\* C18: a selection step with primary_just_pressed false, or without a
\* cursor position, leaves every selected flag and the slot unchanged.
C18_NoClickNoChange ==
    [][SelectGrowthTip /\ ~ClickFrame => tips' = tips /\ active_tip' = active_tip]_vars

\* No click, the cursor is nearer to another tip than to the selected one.
C18_Witness ==
    /\ ~input.primary_just_pressed
    /\ input.cursor # NoPos
    /\ active_tip \in DOMAIN tips
    /\ tips[active_tip].selected
    /\ \E u \in DOMAIN tips : CursorDist2(u) < CursorDist2(active_tip)

\* v is the unit vector (in 1/UNIT) pointing from a to b, or zero if a = b.
IsUnitTowards(v, a, b) ==
    IF a = b
    THEN v = <<0, 0>>
    ELSE /\ v[1] * v[1] + v[2] * v[2] = UNIT * UNIT
         /\ v[1] * (b[2] - a[2]) = v[2] * (b[1] - a[1])
         /\ v[1] * (b[1] - a[1]) + v[2] * (b[2] - a[2]) > 0

C20_AimTouchesOnlyDirection ==
    [][UpdateSelectedTipDirection =>
        /\ active_tip' = active_tip
        /\ DOMAIN tips' = DOMAIN tips
        /\ \A t \in DOMAIN tips \cap DOMAIN tips' :
              /\ tips'[t].selected = tips[t].selected
              /\ tips'[t].position = tips[t].position
              /\ t # active_tip => tips'[t].direction = tips[t].direction
        /\ (input.cursor = NoPos \/ active_tip \notin DOMAIN tips) => tips' = tips]_vars

\* The active tip has been aimed off its spawn direction next to a tip that
\* the cursor is not on the spawn direction of, and which still has it.
C20_Witness ==
    /\ input.cursor # NoPos
    /\ active_tip \in DOMAIN tips
    /\ tips[active_tip].direction # normalize_or_zero(<<1, 0>>)
    /\ \E u \in DOMAIN tips \ {active_tip} :
          /\ tips[u].direction = normalize_or_zero(<<1, 0>>)
          /\ ~IsUnitTowards(tips[u].direction, tips[u].position, input.cursor)

(***************************************************************************)
(* The frame of the network plugin: claims                                 *)
(***************************************************************************)
\* C21: within one Playing frame selection runs before aiming: in a frame
\* whose click selects tip T with the cursor at c, T's direction at the end
\* of the frame is the normalized vector from T's position to c, and the
\* tip that was active before the click is not re-aimed in that frame.
C21_SelectThenAim ==
    [][NetworkUpdate /\ ClickFrame /\ InRange # {} =>
        /\ active_tip' \in DOMAIN tips'
        /\ IsUnitTowards(tips'[active_tip'].direction,
                         tips'[active_tip'].position, input.cursor)
        /\ (active_tip \in DOMAIN tips' /\ active_tip # active_tip')
              => tips'[active_tip].direction = tips[active_tip].direction]_vars

(***************************************************************************)
(* Health: claims                                                          *)
(***************************************************************************)
\* C22: from Health::new(max) with max >= 0, after any sequence of damage
\* and heal with non-negative amounts, 0 <= current <= max; damage clamps at
\* 0, heal clamps at max, and is_dead() is true exactly when current <= 0.
C22_HealthWithinBounds ==
    /\ [](/\ 0 <= hp.current
          /\ hp.current <= hp.max
          /\ call.op = "is_dead" => (call.ret <=> hp.current <= 0))
    /\ [][/\ call'.op = "damage" =>
                hp'.current = (IF hp.current >= call'.amount
                               THEN hp.current - call'.amount ELSE 0)
          /\ call'.op = "heal" =>
                hp'.current = (IF hp.current + call'.amount <= hp.max
                               THEN hp.current + call'.amount ELSE hp.max)
          /\ hp'.max = hp.max]_vars

\* A damage larger than the whole capacity has left the component at 0.
C22_Witness ==
    /\ call.op = "damage"
    /\ hp.max > 0
    /\ call.amount > hp.max
    /\ hp.current = 0

(***************************************************************************)
(* Run restart: claims                                                     *)
(***************************************************************************)
\* C23: on a run restart (Menu -> Playing or GameOver -> Playing) the
\* singletons Nutrients, NetworkStats and ActiveGrowthTip are back at their
\* initial values (50/100, empty stats, slot None) when the frame of the
\* transition ends.
C23_RunRestartResets ==
    [][/\ call'.op = "frame"
       /\ state \in {"Menu", "GameOver"}
       /\ state' = "Playing"
       => /\ nutrients' = NutrientsDefault
          /\ network_stats' = NetworkStatsDefault
          /\ active_tip' = NoEntity]_vars

(***************************************************************************)
(* The state plugin: claims                                                *)
(***************************************************************************)
\* C24: RunStats is reset to all zeros on exactly the transitions
\* Menu -> Playing and GameOver -> Playing; every other transition, in
\* particular Paused -> Playing, leaves RunStats unchanged.
C24_ResetOnNewRunOnly ==
    [][phase = "StateTransition" /\ phase' = "Update" =>
        IF state \in {"Menu", "GameOver"} /\ state' = "Playing"
        THEN run_stats' = [elapsed_time |-> 0, enemies_killed |-> 0,
                           max_territory |-> 0, nutrients_collected |-> 0]
        ELSE run_stats' = run_stats]_vars

\* The game is played with the kills and the time of the run on record.
C24_Witness ==
    /\ state = "Playing"
    /\ phase = "Update"
    /\ run_stats.enemies_killed > 0
    /\ run_stats.elapsed_time > 0
    /\ ~keyboard.escape_just_pressed

\* C25: Escape in Playing requests Paused and clears was_paused_by_upgrade;
\* Escape in Paused requests Playing only if was_paused_by_upgrade is false;
\* in any other state, and in a pause caused by an upgrade, Escape requests
\* nothing.
C25_PauseInput ==
    [][phase = "Update" /\ phase' = "StateTransition" /\ keyboard.escape_just_pressed =>
        CASE state = "Playing" ->
               /\ next_state' = "Paused"
               /\ ~pause_state'.was_paused_by_upgrade
          [] state = "Paused" /\ ~pause_state.was_paused_by_upgrade ->
               /\ next_state' = "Playing"
               /\ pause_state' = pause_state
          [] OTHER ->
               /\ next_state' = next_state
               /\ pause_state' = pause_state]_vars

\* Escape was pressed in a pause caused by an upgrade and nothing is requested.
C25_Witness ==
    /\ state = "Paused"
    /\ phase = "StateTransition"
    /\ keyboard.escape_just_pressed
    /\ pause_state.was_paused_by_upgrade
    /\ next_state = NoState

C27_ChildrenDuplicateFree == NoDuplicate(network_children)

(***************************************************************************)
(* Segment colour: claims                                                  *)
(***************************************************************************)
\* C28: segment_color returns the style's base colour for a segment with
\* health = max_health that is not corrupted, and the corruption colour
\* (0.5, 0.1, 0.4) for a corrupted segment of corruption_level 1, whatever
\* its health and max_health.
C28_SegmentColor ==
    color # NoColor =>
        /\ (segment.health = segment.max_health /\ ~segment.corrupted) => color = style
        /\ (segment.corrupted /\ segment.corruption_level = 1000)
              => color = <<500, 100, 400, 1000>>

\* A fully corrupted segment without capacity has the corruption colour.
C28_Witness ==
    /\ color = <<500, 100, 400, 1000>>
    /\ segment.corrupted
    /\ segment.corruption_level = 1000
    /\ segment.max_health <= 0
    /\ style[4] < 1000

(***************************************************************************)
(* Connectivity with stale handles: claims                                 *)
(***************************************************************************)
RECURSIVE WalkMeetsMiss(_, _, _)
\* The walk up from cur, at most k links long, meets a parent handle that
\* names a despawned entity, or an entity without parent component, no later
\* than it meets the core handle.  viaParent: cur was read from a parent link.
WalkMeetsMiss(cur, k, viaParent) ==
    IF viaParent /\ cur \notin alive THEN TRUE
    ELSE IF cur = core THEN FALSE
    ELSE IF cur \notin alive \/ parents[cur] = NoEntity THEN TRUE
    ELSE k > 0 /\ WalkMeetsMiss(parents[cur], k - 1, TRUE)

\* C29: is_connected_to_core returns false whenever a parent handle on the
\* walk from entity names a despawned entity or a step has no parent
\* component, also when the despawned entity is the one the core handle names.
C29_FalseOnAnyMiss ==
    ("is_connected_to_core" \in DOMAIN ret /\ WalkMeetsMiss(entity, NumEntities, FALSE))
        => ret["is_connected_to_core"] = FALSE

(***************************************************************************)
(* Level-triggered death check: claims                                     *)
(***************************************************************************)
\* The step is the Update schedule of one frame.
UpdateStep == phase = "Update" /\ phase' = "StateTransition"

\* Exactly one CoreNode exists and its health is <= 0.
SingleCoreDead ==
    /\ Cardinality(DOMAIN cores) = 1
    /\ \A c \in DOMAIN cores : cores[c] <= 0

\* C30: in every Playing frame in which the single core's health is <= 0 the
\* death check requests GameOver, whatever was requested before, and a
\* GameOver request always results in the state GameOver, also when repeated
\* in that state; no request is made in a frame without CoreNode or with all
\* health > 0, and none outside the Playing state.
C30_LevelTriggeredDeath ==
    /\ [][(UpdateStep /\ state = "Playing" /\ SingleCoreDead)
            => next_state' = "GameOver"]_vars
    /\ [][(UpdateStep /\ (state # "Playing" \/ \A c \in DOMAIN cores : cores[c] > 0))
            => next_state' = next_state]_vars
    /\ [][next_state = "GameOver" /\ phase = "StateTransition" /\ phase' = "Update"
            => state' = "GameOver"]_vars

\* The check has just requested GameOver for the dead single core.
C30_Witness ==
    /\ state = "Playing"
    /\ phase = "StateTransition"
    /\ next_state = "GameOver"
    /\ SingleCoreDead

(***************************************************************************)
(* Selection: clicking again, stale handles, game state                    *)
(***************************************************************************)
\* The slot's tip is in range of the cursor and strictly nearer to it than
\* every other tip in range, before the step.
ActiveIsNearest ==
    /\ active_tip \in InRange
    /\ \A u \in InRange \ {active_tip} : CursorDist2(active_tip) < CursorDist2(u)

\* C31: a click on the tip that is already active, when it is the nearest in
\* range, ends with that tip selected, the slot naming it and every other
\* tip as before, so with the state as before when the tip was selected; the
\* same click frame once more gives the same state again.
C31_ReclickKeepsSelection ==
    [][SelectGrowthTip /\ ClickFrame /\ ActiveIsNearest =>
        /\ active_tip' = active_tip
        /\ tips' = [tips EXCEPT ![active_tip].selected = TRUE]
        /\ tips[active_tip].selected => tips' = tips
        /\ select_growth_tip(input', active_tip', tips')
             = {[active_tip |-> active_tip', tips |-> tips']}]_vars

\* The click is on the active, selected tip, which was aimed while active,
\* and a second tip lies in range but farther away.
C31_Witness ==
    /\ ClickFrame
    /\ ActiveIsNearest
    /\ tips[active_tip].selected
    /\ tips[active_tip].direction # normalize_or_zero(<<1, 0>>)
    /\ InRange # {active_tip}

\* C32: right after every click frame with a cursor position, whatever the
\* slot held before, the slot is None or names a live tip whose flag is set;
\* a handle of a despawned tip does not survive the frame.
C32_SlotLiveAfterClick ==
    [][SelectGrowthTip /\ ClickFrame =>
        \/ active_tip' = NoEntity
        \/ /\ active_tip' \in DOMAIN tips'
           /\ tips'[active_tip'].selected]_vars

\* A click frame begins with the slot naming a despawned tip, next to a
\* live tip in range of the cursor.
C32_Witness ==
    /\ ClickFrame
    /\ active_tip # NoEntity
    /\ active_tip \notin DOMAIN tips
    /\ InRange # {}

\* C33: the selection step runs only in frames whose state is Playing: in
\* Menu, Paused, Upgrading and GameOver a frame changes no selected flag
\* and not the slot, whatever the input.
C33_SelectionOnlyInPlaying ==
    [][UpdateStep /\ state # "Playing" => tips' = tips /\ active_tip' = active_tip]_vars

\* A paused game after a frame: the click is nearer to another tip than to
\* the selected one, which is still selected.
C33_Witness ==
    /\ state = "Paused"
    /\ phase = "StateTransition"
    /\ ClickFrame
    /\ active_tip \in DOMAIN tips
    /\ tips[active_tip].selected
    /\ \E u \in InRange : CursorDist2(u) < CursorDist2(active_tip)

(***************************************************************************)
(* Downstream and path on a mirrored tree: claims                          *)
(***************************************************************************)
\* The four results of a query are there.
Queried == "find_downstream_segments" \in DOMAIN ret /\ "x" \in DOMAIN ret

\* C34: on a connected tree whose children lists mirror the parent links, x
\* is listed by find_downstream_segments(e) exactly when e is on
\* path_to_core(x, core), and find_downstream_segments(core) lists exactly
\* the entities for which is_connected_to_core is true.
C34_DownstreamIffOnPath ==
    Queried =>
        /\ ret.x \in Range(ret.find_downstream_segments)
             <=> /\ ret.path_to_core # None
                 /\ ret.entity \in Range(ret.path_to_core[1])
        /\ ret.x \in Range(ret.downstream_of_core) <=> ret.is_connected_to_core

\* A tree of three levels, asked about an inner segment and itself.
C34_Witness ==
    /\ Queried
    /\ ret.entity = ret.x
    /\ ret.entity # core
    /\ Len(ret.find_downstream_segments) >= 2
    /\ Len(ret.path_to_core[1]) >= 2

(***************************************************************************)
(* Notifications of the economy: claims                                    *)
(***************************************************************************)
\* C35: in every passive-generation frame the amount of the NutrientsGained
\* notification equals the increase of Nutrients.current in that frame, also
\* when the pool is at or near max.
C35_GainedIsIncrease ==
    [][call'.op = "frame" =>
        \A i \in 1..Len(events') :
            events'[i].kind = "NutrientsGained" =>
                events'[i].amount = nutrients'.current - nutrients.current]_vars

\* C36: every NutrientSpendFailed sent by try_spend_nutrients has
\* amount_needed > amount_available, so a strictly positive deficit, and
\* amount_available is the pool's current value before and after the call.
C36_FailedHasDeficit ==
    [][call'.op = "try_spend" =>
        \A i \in 1..Len(events') :
            events'[i].kind = "NutrientSpendFailed" =>
                /\ events'[i].amount > events'[i].available
                /\ events'[i].amount - events'[i].available > 0
                /\ events'[i].available = nutrients.current
                /\ events'[i].available = nutrients'.current]_vars

\* A failed attempt that needed 45.0 more than the pool held.
C36_Witness ==
    /\ call.op = "try_spend"
    /\ ~call.ret
    /\ Len(events) = 1
    /\ events[1].kind = "NutrientSpendFailed"
    /\ events[1].amount - events[1].available = 450

\* C37: for every amount, negative ones included, Nutrients::spend never
\* increases current, Nutrients::add never decreases it, and neither leaves
\* current outside 0..max.
C37_SignedAmounts ==
    [][/\ call'.op = "spend" => nutrients'.current <= nutrients.current
       /\ call'.op = "add" => nutrients'.current >= nutrients.current
       /\ (call'.op \in {"add", "spend"} /\ 0 <= nutrients.current
             /\ nutrients.current <= nutrients.max)
            => (0 <= nutrients'.current /\ nutrients'.current <= nutrients'.max)]_vars

(***************************************************************************)
(* Input refresh: claims                                                   *)
(***************************************************************************)
\* The keyboard and the mouse have been read in this frame.
DevicesRead == input_step \in {"update_scroll_input", "input"}

\* C38: after the input refresh of a frame primary_just_pressed is true
\* exactly when Space or the left button was just pressed in that frame,
\* so an edge lasts one frame, and primary_held exactly when Space or the
\* left button is down; clear leaves primary_held and secondary_held as
\* they are.
C38_InputRefresh ==
    /\ [](DevicesRead =>
            /\ actions.primary_just_pressed
                 <=> ("Space" \in keys.just_pressed \/ "Left" \in mouse.just_pressed)
            /\ actions.primary_held
                 <=> ("Space" \in keys.pressed \/ "Left" \in mouse.pressed))
    /\ [][input_step = "clear_input_actions" /\ input_step' = "update_keyboard_input"
            => /\ actions'.primary_held = actions.primary_held
               /\ actions'.secondary_held = actions.secondary_held]_vars

\* Space is down since an earlier frame and the left button has just gone
\* down and up again: an edge without hold from the mouse, a hold without
\* edge from the keyboard.
C38_Witness ==
    /\ input_step = "input"
    /\ "Space" \in keys.pressed \ keys.just_pressed
    /\ "Left" \in mouse.just_pressed \ mouse.pressed
    /\ actions.primary_held
    /\ actions.primary_just_pressed

(***************************************************************************)
(* Frame-time tracker: claims                                              *)
(***************************************************************************)
\* C39: for every FrameTimeTracker::new(max_samples), max_samples >= 0, and
\* every sequence of record calls, record never panics, sample_count() <=
\* max_samples always holds, and once full each record drops the oldest
\* sample and keeps the others in arrival order.
C39_TrackerWindow ==
    /\ [](~tracker.panicked /\ sample_count(tracker) <= tracker.max_samples)
    /\ [][sample_count(tracker) = tracker.max_samples =>
            /\ sample_count(tracker') = tracker.max_samples
            /\ \A i \in 1..(tracker.max_samples - 1) :
                  tracker'.frame_times[i] = tracker.frame_times[i + 1]]_vars

====
